---- MODULE Spec2Model ----
(***************************************************************************)
(* SELENE analysis pipeline: SchematicAnalyzer (validate, build context,   *)
(* invoke the Ollama gateway with retries, process the response, recover   *)
(* every failure into an error result) and AnalysisCache (keyed result     *)
(* memo with eviction by oldest access time).                              *)
(*                                                                         *)
(* Python values are modelled with their type where the code's behaviour   *)
(* depends on it: a str is a TLA+ string or a sequence of one-character    *)
(* strings (response texts, so that strip() is computed), a dict is the    *)
(* function from its keys together with the keys in insertion order, None  *)
(* is the record PyNone, an int and a bool are the records PyInt and       *)
(* PyBool.  An exception is a record [type, msg] with str(e) = msg.        *)
(***************************************************************************)
EXTENDS Integers, Sequences, FiniteSets, TLC

VARIABLES
    fs,             \* file system: path -> PyNone (absent) or [size, mtime, image_ok]
    is_connected,   \* OllamaClient.is_connected
    pc,             \* position of the current call
    entry,          \* the method the caller invoked
    req,            \* the arguments of the current call
    context,        \* analysis context built by prepare_analysis_request
    attempt,        \* loop variable of perform_ollama_analysis
    last_error,     \* last_error of perform_ollama_analysis
    raw_response,   \* text returned by perform_ollama_analysis
    result,         \* value returned to the caller
    raised,         \* exception that reached the caller
    caught,         \* exception analyze() caught, with the stage that raised it
    probe,          \* what check_connection answers during the current call
    generate_calls, \* OllamaClient.generate calls made during the current call
    last_attempt,   \* what the endpoint did on the latest generate call, and the verdict
    context_builds, \* build_analysis_context calls made during the current call
    first,          \* when a call is repeated: what the first call did
    reading,        \* the stream_generate call in progress: the lines to read, the text so far
    stub,           \* a gateway that answers every POST of the current call alike, if any
    cache,          \* AnalysisCache.cache: key -> result
    access_times,   \* AnalysisCache.access_times: key -> time
    order,          \* insertion order of access_times (dict iteration order)
    clock,          \* time.time()
    written,        \* for each cached key, the arguments of the put that stored it
    last_op,        \* the last cache operation, its arguments and what it returned
    gui             \* the state of the main window, its panels and its pending timers

analyzerVars == <<is_connected, pc, entry, req, context, attempt, last_error,
                  raw_response, result, raised, caught, probe,
                  generate_calls, last_attempt, context_builds, first,
                  reading, stub>>
cacheVars == <<cache, access_times, order, clock, written, last_op>>
vars == <<fs, analyzerVars, cacheVars, gui>>

(***************************************************************************)
(* Bounds of the model.                                                    *)
(***************************************************************************)
\* longest run of non-blank characters in a generated response text
MaxBody == 12
\* largest blank padding put before and after a response text
MaxPad == 1
\* largest value of the wall clock in the cache model
MaxClock == 2
\* largest number of issue lines in a generated response text
MaxLines == 11
\* largest number of pending callbacks of one kind in the main window
MaxPending == 2
\* largest file size / modification time a file takes
MaxStamp == 1

(***************************************************************************)
(* Program constants.                                                      *)
(***************************************************************************)
\* SchematicAnalyzer.max_retries
max_retries == 3
\* the acceptance threshold of perform_ollama_analysis: len(strip) > 10
MinResponseLen == 10
\* AnalysisCache.max_size of the cache of the model (AnalysisCache(max_size))
max_size == 2

\* Let(e, LAMBDA x : body) is body with x naming the value of e
Let(value, In(_)) == In(value)

PyNone == [py |-> "NoneType"]

(***************************************************************************)
(* Text helpers.  A Python str is a TLA+ string, or the sequence of its    *)
(* characters; Chars and Flat convert between the two.  The characters are *)
(* those a TLA+ string can hold: U+0001..U+00FF and the characters of the  *)
(* Basic Multilingual Plane whose code point has a low byte of 80..FF.     *)
(* The tables below are the Unicode data of Python 3.11 for them.          *)
(***************************************************************************)
Chars(s) == [i \in 1..Len(s) |-> SubSeq(s, i, i)]

RECURSIVE Flat(_)
\* ''.join(chars)
Flat(chars) ==
    IF Len(chars) = 0 THEN ""
    ELSE IF Len(chars) = 1 THEN chars[1]
    ELSE LET h == Len(chars) \div 2 IN
         Flat(SubSeq(chars, 1, h)) \o Flat(SubSeq(chars, h + 1, Len(chars)))

\* the character at position i of s (1-based), "" outside s
At(s, i) == IF i >= 1 /\ i <= Len(s) THEN SubSeq(s, i, i) ELSE ""

\* the set of the characters of s
CharSet(s) == {SubSeq(s, i, i) : i \in 1..Len(s)}

\* the characters, in the order of their code points
AllChars ==
    "\t\n\f\r !\"#$%&'()*+,-./0123456789:;<=>?@ABCDEFGHIJKLMNOPQRSTUVWXYZ[\\]^_" \o SubSeq("`'", 1, 1) \o "abcdefghijklmnopqrstuvwxyz{|}~ ¡¢£¤¥¦§¨©ª«¬­®¯°±²³´µ¶·¸¹º»¼½¾¿ÀÁÂÃÄÅÆÇÈÉÊËÌÍÎÏÐÑÒÓÔÕÖ×ØÙÚÛÜÝÞßàáâãäåæçèéêëìíîïðñòóôõö÷øùúûüýþÿƀƁƂƃƄƅƆƇƈƉƊƋƌƍƎƏƐƑƒƓƔƕƖƗƘƙƚƛƜƝƞƟƠơƢƣƤƥƦƧƨƩƪƫƬƭƮƯưƱƲƳƴƵƶƷƸƹƺƻƼƽƾƿǀǁǂǃǄǅǆǇǈǉǊǋǌǍǎǏǐǑǒǓǔǕǖǗǘǙǚǛǜǝǞǟǠǡǢǣǤǥǦǧǨǩǪǫǬǭǮǯǰǱǲǳǴǵǶǷǸǹǺǻǼǽǾǿʀʁʂʃʄʅʆʇʈʉʊʋʌʍʎʏʐʑʒʓʔʕʖʗʘʙʚʛʜʝʞʟʠʡʢʣʤʥʦʧʨʩʪʫʬʭʮʯʰʱʲʳʴʵʶʷʸʹʺʻʼʽʾʿˀˁ˂˃˄˅ˆˇˈˉˊˋˌˍˎˏːˑ˒˓˔˕˖˗˘˙˚˛˜˝˞˟ˠˡˢˣˤ˥˦˧˨˩˪˫ˬ˭ˮ˯˰˱˲˳˴˵˶˷˸˹˺˻˼˽˾˿΀΁΂΃΄΅Ά·ΈΉΊ΋Ό΍ΎΏΐΑΒΓΔΕΖΗΘΙΚΛΜΝΞΟΠΡ΢ΣΤΥΦΧΨΩΪΫάέήίΰαβγδεζηθικλμνξοπρςστυφχψωϊϋόύώϏϐϑϒϓϔϕϖϗϘϙϚϛϜϝϞϟϠϡϢϣϤϥϦϧϨϩϪϫϬϭϮϯϰϱϲϳϴϵ϶ϷϸϹϺϻϼϽϾϿҀҁ҂҃҄҅҆҇҈҉ҊҋҌҍҎҏҐґҒғҔҕҖҗҘҙҚқҜҝҞҟҠҡҢңҤҥҦҧҨҩҪҫҬҭҮүҰұҲҳҴҵҶҷҸҹҺһҼҽҾҿӀӁӂӃӄӅӆӇӈӉӊӋӌӍӎӏӐӑӒӓӔӕӖӗӘәӚӛӜӝӞӟӠӡӢӣӤӥӦӧӨөӪӫӬӭӮӯӰӱӲӳӴӵӶӷӸӹӺӻӼӽӾӿրցւփքօֆևֈ։֊֋֌֍֎֏֐ְֱֲֳִֵֶַָֹֺֻּֽ֑֖֛֢֣֤֥֦֧֪֚֭֮֒֓֔֕֗֘֙֜֝֞֟֠֡֨֩֫֬֯־ֿ׀ׁׂ׃ׅׄ׆ׇ׈׉׊׋׌׍׎׏אבגדהוזחטיךכלםמןנסעףפץצקרשת׫׬׭׮ׯװױײ׳״׵׶׷׸׹׺׻׼׽׾׿ڀځڂڃڄڅچڇڈډڊڋڌڍڎڏڐڑڒړڔڕږڗژڙښڛڜڝڞڟڠڡڢڣڤڥڦڧڨکڪګڬڭڮگڰڱڲڳڴڵڶڷڸڹںڻڼڽھڿۀہۂۃۄۅۆۇۈۉۊۋیۍێۏېۑےۓ۔ەۖۗۘۙۚۛۜ۝۞ۣ۟۠ۡۢۤۥۦۧۨ۩۪ۭ۫۬ۮۯ۰۱۲۳۴۵۶۷۸۹ۺۻۼ۽۾ۿހށނރބޅކއވމފދތލގޏސޑޒޓޔޕޖޗޘޙޚޛޜޝޞޟޠޡޢޣޤޥަާިީުޫެޭޮޯްޱ޲޳޴޵޶޷޸޹޺޻޼޽޾޿߀߁߂߃߄߅߆߇߈߉ߊߋߌߍߎߏߐߑߒߓߔߕߖߗߘߙߚߛߜߝߞߟߠߡߢߣߤߥߦߧߨߩߪ߲߫߬߭߮߯߰߱߳ߴߵ߶߷߸߹ߺ߻߼߽߾߿ࢀࢁࢂࢃࢄࢅࢆࢇ࢈ࢉࢊࢋࢌࢍࢎ࢏࢐࢑࢒࢓࢔࢕࢖࢙࢚࢛ࢗ࢘࢜࢝࢞࢟ࢠࢡࢢࢣࢤࢥࢦࢧࢨࢩࢪࢫࢬࢭࢮࢯࢰࢱࢲࢳࢴࢵࢶࢷࢸࢹࢺࢻࢼࢽࢾࢿࣀࣁࣂࣃࣄࣅࣆࣇࣈࣉ࣏࣐࣑࣒࣓࣊࣋࣌࣍࣎ࣔࣕࣖࣗࣘࣙࣚࣛࣜࣝࣞࣟ࣠࣡࣢ࣰࣱࣲࣣࣦࣩ࣭࣮࣯ࣶࣹࣺࣤࣥࣧࣨ࣪࣫࣬ࣳࣴࣵࣷࣸࣻࣼࣽࣾࣿঀঁংঃ঄অআইঈউঊঋঌ঍঎এঐ঑঒ওঔকখগঘঙচছজঝঞটঠডঢণতথদধন঩পফবভমযর঱ল঳঴঵শষসহ঺঻়ঽািীুূৃৄ৅৆েৈ৉৊োৌ্ৎ৏৐৑৒৓৔৕৖ৗ৘৙৚৛ড়ঢ়৞য়ৠৡৢৣ৤৥০১২৩৪৫৬৭৮৯ৰৱ৲৳৴৵৶৷৸৹৺৻ৼ৽৾৿઀ઁંઃ઄અઆઇઈઉઊઋઌઍ઎એઐઑ઒ઓઔકખગઘઙચછજઝઞટઠડઢણતથદધન઩પફબભમયર઱લળ઴વશષસહ઺઻઼ઽાિીુૂૃૄૅ૆ેૈૉ૊ોૌ્૎૏ૐ૑૒૓૔૕૖૗૘૙૚૛૜૝૞૟ૠૡૢૣ૤૥૦૧૨૩૪૫૬૭૮૯૰૱૲૳૴૵૶૷૸ૹૺૻૼ૽૾૿஀஁ஂஃ஄அஆஇஈஉஊ஋஌஍எஏஐ஑ஒஓஔக஖஗஘ஙச஛ஜ஝ஞட஠஡஢ணத஥஦஧நனப஫஬஭மயரறலளழவஶஷஸஹ஺஻஼஽ாிீுூ௃௄௅ெேை௉ொோௌ்௎௏ௐ௑௒௓௔௕௖ௗ௘௙௚௛௜௝௞௟௠௡௢௣௤௥௦௧௨௩௪௫௬௭௮௯௰௱௲௳௴௵௶௷௸௹௺௻௼௽௾௿ಀಁಂಃ಄ಅಆಇಈಉಊಋಌ಍ಎಏಐ಑ಒಓಔಕಖಗಘಙಚಛಜಝಞಟಠಡಢಣತಥದಧನ಩ಪಫಬಭಮಯರಱಲಳ಴ವಶಷಸಹ಺಻಼ಽಾಿೀುೂೃೄ೅ೆೇೈ೉ೊೋೌ್೎೏೐೑೒೓೔ೕೖ೗೘೙೚೛೜ೝೞ೟ೠೡೢೣ೤೥೦೧೨೩೪೫೬೭೮೯೰ೱೲೳ೴೵೶೷೸೹೺೻೼೽೾೿඀ඁංඃ඄අආඇඈඉඊඋඌඍඎඏඐඑඒඓඔඕඖ඗඘඙කඛගඝඞඟචඡජඣඤඥඦටඨඩඪණඬතථදධන඲ඳපඵබභමඹයර඼ල඾඿වශෂසහළෆ෇෈෉්෋෌෍෎ාැෑිීු෕ූ෗ෘෙේෛොෝෞෟ෠෡෢෣෤෥෦෧෨෩෪෫෬෭෮෯෰෱ෲෳ෴෵෶෷෸෹෺෻෼෽෾෿຀ກຂ຃ຄ຅ຆງຈຉຊ຋ຌຍຎຏຐຑຒຓດຕຖທຘນບປຜຝພຟຠມຢຣ຤ລ຦ວຨຩສຫຬອຮຯະັາຳິີຶື຺ຸູົຼຽ຾຿ເແໂໃໄ໅ໆ໇່້໊໋໌ໍ໎໏໐໑໒໓໔໕໖໗໘໙໚໛ໜໝໞໟ໠໡໢໣໤໥໦໧໨໩໪໫໬໭໮໯໰໱໲໳໴໵໶໷໸໹໺໻໼໽໾໿྄ཱྀྀྂྃ྅྆྇ྈྉྊྋྌྍྎྏྐྑྒྒྷྔྕྖྗ྘ྙྚྛྜྜྷྞྟྠྡྡྷྣྤྥྦྦྷྨྩྪྫྫྷྭྮྯྰྱྲླྴྵྶྷྸྐྵྺྻྼ྽྾྿࿀࿁࿂࿃࿄࿅࿆࿇࿈࿉࿊࿋࿌࿍࿎࿏࿐࿑࿒࿓࿔࿕࿖࿗࿘࿙࿚࿛࿜࿝࿞࿟࿠࿡࿢࿣࿤࿥࿦࿧࿨࿩࿪࿫࿬࿭࿮࿯࿰࿱࿲࿳࿴࿵࿶࿷࿸࿹࿺࿻࿼࿽࿾࿿ႀႁႂႃႄႅႆႇႈႉႊႋႌႍႎႏ႐႑႒႓႔႕႖႗႘႙ႚႛႜႝ႞႟ႠႡႢႣႤႥႦႧႨႩႪႫႬႭႮႯႰႱႲႳႴႵႶႷႸႹႺႻႼႽႾႿჀჁჂჃჄჅ჆Ⴧ჈჉჊჋჌Ⴭ჎჏აბგდევზთიკლმნოპჟრსტუფქღყშჩცძწჭხჯჰჱჲჳჴჵჶჷჸჹჺ჻ჼჽჾჿᆀᆁᆂᆃᆄᆅᆆᆇᆈᆉᆊᆋᆌᆍᆎᆏᆐᆑᆒᆓᆔᆕᆖᆗᆘᆙᆚᆛᆜᆝᆞᆟᆠᆡᆢᆣᆤᆥᆦᆧᆨᆩᆪᆫᆬᆭᆮᆯᆰᆱᆲᆳᆴᆵᆶᆷᆸᆹᆺᆻᆼᆽᆾᆿᇀᇁᇂᇃᇄᇅᇆᇇᇈᇉᇊᇋᇌᇍᇎᇏᇐᇑᇒᇓᇔᇕᇖᇗᇘᇙᇚᇛᇜᇝᇞᇟᇠᇡᇢᇣᇤᇥᇦᇧᇨᇩᇪᇫᇬᇭᇮᇯᇰᇱᇲᇳᇴᇵᇶᇷᇸᇹᇺᇻᇼᇽᇾᇿኀኁኂኃኄኅኆኇኈ኉ኊኋኌኍ኎኏ነኑኒናኔንኖኗኘኙኚኛኜኝኞኟአኡኢኣኤእኦኧከኩኪካኬክኮኯኰ኱ኲኳኴኵ኶኷ኸኹኺኻኼኽኾ኿ዀ዁ዂዃዄዅ዆዇ወዉዊዋዌውዎዏዐዑዒዓዔዕዖ዗ዘዙዚዛዜዝዞዟዠዡዢዣዤዥዦዧየዩዪያዬይዮዯደዱዲዳዴድዶዷዸዹዺዻዼዽዾዿᎀᎁᎂᎃᎄᎅᎆᎇᎈᎉᎊᎋᎌᎍᎎᎏ᎐᎑᎒᎓᎔᎕᎖᎗᎘᎙᎚᎛᎜᎝᎞᎟ᎠᎡᎢᎣᎤᎥᎦᎧᎨᎩᎪᎫᎬᎭᎮᎯᎰᎱᎲᎳᎴᎵᎶᎷᎸᎹᎺᎻᎼᎽᎾᎿᏀᏁᏂᏃᏄᏅᏆᏇᏈᏉᏊᏋᏌᏍᏎᏏᏐᏑᏒᏓᏔᏕᏖᏗᏘᏙᏚᏛᏜᏝᏞᏟᏠᏡᏢᏣᏤᏥᏦᏧᏨᏩᏪᏫᏬᏭᏮᏯᏰᏱᏲᏳᏴᏵ᏶᏷ᏸᏹᏺᏻᏼᏽ᏾᏿ᒀᒁᒂᒃᒄᒅᒆᒇᒈᒉᒊᒋᒌᒍᒎᒏᒐᒑᒒᒓᒔᒕᒖᒗᒘᒙᒚᒛᒜᒝᒞᒟᒠᒡᒢᒣᒤᒥᒦᒧᒨᒩᒪᒫᒬᒭᒮᒯᒰᒱᒲᒳᒴᒵᒶᒷᒸᒹᒺᒻᒼᒽᒾᒿᓀᓁᓂᓃᓄᓅᓆᓇᓈᓉᓊᓋᓌᓍᓎᓏᓐᓑᓒᓓᓔᓕᓖᓗᓘᓙᓚᓛᓜᓝᓞᓟᓠᓡᓢᓣᓤᓥᓦᓧᓨᓩᓪᓫᓬᓭᓮᓯᓰᓱᓲᓳᓴᓵᓶᓷᓸᓹᓺᓻᓼᓽᓾᓿᖀᖁᖂᖃᖄᖅᖆᖇᖈᖉᖊᖋᖌᖍᖎᖏᖐᖑᖒᖓᖔᖕᖖᖗᖘᖙᖚᖛᖜᖝᖞᖟᖠᖡᖢᖣᖤᖥᖦᖧᖨᖩᖪᖫᖬᖭᖮᖯᖰᖱᖲᖳᖴᖵᖶᖷᖸᖹᖺᖻᖼᖽᖾᖿᗀᗁᗂᗃᗄᗅᗆᗇᗈᗉᗊᗋᗌᗍᗎᗏᗐᗑᗒᗓᗔᗕᗖᗗᗘᗙᗚᗛᗜᗝᗞᗟᗠᗡᗢᗣᗤᗥᗦᗧᗨᗩᗪᗫᗬᗭᗮᗯᗰᗱᗲᗳᗴᗵᗶᗷᗸᗹᗺᗻᗼᗽᗾᗿ ᚁᚂᚃᚄᚅᚆᚇᚈᚉᚊᚋᚌᚍᚎᚏᚐᚑᚒᚓᚔᚕᚖᚗᚘᚙᚚ᚛᚜᚝᚞᚟ᚠᚡᚢᚣᚤᚥᚦᚧᚨᚩᚪᚫᚬᚭᚮᚯᚰᚱᚲᚳᚴᚵᚶᚷᚸᚹᚺᚻᚼᚽᚾᚿᛀᛁᛂᛃᛄᛅᛆᛇᛈᛉᛊᛋᛌᛍᛎᛏᛐᛑᛒᛓᛔᛕᛖᛗᛘᛙᛚᛛᛜᛝᛞᛟᛠᛡᛢᛣᛤᛥᛦᛧᛨᛩᛪ᛫᛬᛭ᛮᛯᛰᛱᛲᛳᛴᛵᛶᛷᛸ᛹᛺᛻᛼᛽᛾᛿កខគឃងចឆជឈញដឋឌឍណតថទធនបផពភមយរលវឝឞសហឡអឣឤឥឦឧឨឩឪឫឬឭឮឯឰឱឲឳ឴឵ាិីឹឺុូួើឿៀេែៃោៅំះៈ៉៊់៌៍៎៏័៑្៓។៕៖ៗ៘៙៚៛ៜ៝៞៟០១២៣៤៥៦៧៨៩៪៫៬៭៮៯៰៱៲៳៴៵៶៷៸៹៺៻៼៽៾៿ᢀᢁᢂᢃᢄᢅᢆᢇᢈᢉᢊᢋᢌᢍᢎᢏᢐᢑᢒᢓᢔᢕᢖᢗᢘᢙᢚᢛᢜᢝᢞᢟᢠᢡᢢᢣᢤᢥᢦᢧᢨᢩᢪ᢫᢬᢭᢮᢯ᢰᢱᢲᢳᢴᢵᢶᢷᢸᢹᢺᢻᢼᢽᢾᢿᣀᣁᣂᣃᣄᣅᣆᣇᣈᣉᣊᣋᣌᣍᣎᣏᣐᣑᣒᣓᣔᣕᣖᣗᣘᣙᣚᣛᣜᣝᣞᣟᣠᣡᣢᣣᣤᣥᣦᣧᣨᣩᣪᣫᣬᣭᣮᣯᣰᣱᣲᣳᣴᣵ᣶᣷᣸᣹᣺᣻᣼᣽᣾᣿ᦀᦁᦂᦃᦄᦅᦆᦇᦈᦉᦊᦋᦌᦍᦎᦏᦐᦑᦒᦓᦔᦕᦖᦗᦘᦙᦚᦛᦜᦝᦞᦟᦠᦡᦢᦣᦤᦥᦦᦧᦨᦩᦪᦫ᦬᦭᦮᦯ᦰᦱᦲᦳᦴᦵᦶᦷᦸᦹᦺᦻᦼᦽᦾᦿᧀᧁᧂᧃᧄᧅᧆᧇᧈᧉ᧊᧋᧌᧍᧎᧏᧐᧑᧒᧓᧔᧕᧖᧗᧘᧙᧚᧛᧜᧝᧞᧟᧠᧡᧢᧣᧤᧥᧦᧧᧨᧩᧪᧫᧬᧭᧮᧯᧰᧱᧲᧳᧴᧵᧶᧷᧸᧹᧺᧻᧼᧽᧾᧿᪀᪁᪂᪃᪄᪅᪆᪇᪈᪉᪊᪋᪌᪍᪎᪏᪐᪑᪒᪓᪔᪕᪖᪗᪘᪙᪚᪛᪜᪝᪞᪟᪠᪡᪢᪣᪤᪥᪦ᪧ᪨᪩᪪᪫᪬᪭᪮᪯᪵᪶᪷᪸᪹᪺᪽᪰᪱᪲᪳᪴᪻᪼᪾ᪿᫀ᫃᫄᫊᫁᫂᫅᫆᫇᫈᫉᫋ᫌᫍᫎ᫏᫐᫑᫒᫓᫔᫕᫖᫗᫘᫙᫚᫛᫜᫝᫞᫟᫠᫡᫢᫣᫤᫥᫦᫧᫨᫩᫪᫫᫬᫭᫮᫯᫰᫱᫲᫳᫴᫵᫶᫷᫸᫹᫺᫻᫼᫽᫾᫿ᮀᮁᮂᮃᮄᮅᮆᮇᮈᮉᮊᮋᮌᮍᮎᮏᮐᮑᮒᮓᮔᮕᮖᮗᮘᮙᮚᮛᮜᮝᮞᮟᮠᮡᮢᮣᮤᮥᮦᮧᮨᮩ᮪᮫ᮬᮭᮮᮯ᮰᮱᮲᮳᮴᮵᮶᮷᮸᮹ᮺᮻᮼᮽᮾᮿᯀᯁᯂᯃᯄᯅᯆᯇᯈᯉᯊᯋᯌᯍᯎᯏᯐᯑᯒᯓᯔᯕᯖᯗᯘᯙᯚᯛᯜᯝᯞᯟᯠᯡᯢᯣᯤᯥ᯦ᯧᯨᯩᯪᯫᯬᯭᯮᯯᯰᯱ᯲᯳᯴᯵᯶᯷᯸᯹᯺᯻᯼᯽᯾᯿ᲀᲁᲂᲃᲄᲅᲆᲇᲈᲉᲊ᲋᲌᲍᲎᲏ᲐᲑᲒᲓᲔᲕᲖᲗᲘᲙᲚᲛᲜᲝᲞᲟᲠᲡᲢᲣᲤᲥᲦᲧᲨᲩᲪᲫᲬᲭᲮᲯᲰᲱᲲᲳᲴᲵᲶᲷᲸᲹᲺ᲻᲼ᲽᲾᲿ᳀᳁᳂᳃᳄᳅᳆᳇᳈᳉᳊᳋᳌᳍᳎᳏᳐᳑᳒᳓᳔᳕᳖᳗᳘᳙᳜᳝᳞᳟᳚᳛᳠᳡᳢᳣᳤᳥᳦᳧᳨ᳩᳪᳫᳬ᳭ᳮᳯᳰᳱᳲᳳ᳴ᳵᳶ᳷᳸᳹ᳺ᳻᳼᳽᳾᳿ᶀᶁᶂᶃᶄᶅᶆᶇᶈᶉᶊᶋᶌᶍᶎᶏᶐᶑᶒᶓᶔᶕᶖᶗᶘᶙᶚᶛᶜᶝᶞᶟᶠᶡᶢᶣᶤᶥᶦᶧᶨᶩᶪᶫᶬᶭᶮᶯᶰᶱᶲᶳᶴᶵᶶᶷᶸᶹᶺᶻᶼᶽᶾᶿ᷐᷎᷺᷂᷊᷏᷹᷽᷿᷷᷸᷀᷁᷃᷄᷅᷆᷇᷈᷉᷋᷌᷑᷒ᷓᷔᷕᷖᷗᷘᷙᷚᷛᷜᷝᷞᷟᷠᷡᷢᷣᷤᷥᷦᷧᷨᷩᷪᷫᷬᷭᷮᷯᷰᷱᷲᷳᷴ᷵᷻᷾᷶᷼᷍ẀẁẂẃẄẅẆẇẈẉẊẋẌẍẎẏẐẑẒẓẔẕẖẗẘẙẚẛẜẝẞẟẠạẢảẤấẦầẨẩẪẫẬậẮắẰằẲẳẴẵẶặẸẹẺẻẼẽẾếỀềỂểỄễỆệỈỉỊịỌọỎỏỐốỒồỔổỖỗỘộỚớỜờỞởỠỡỢợỤụỦủỨứỪừỬửỮữỰựỲỳỴỵỶỷỸỹỺỻỼỽỾỿᾀᾁᾂᾃᾄᾅᾆᾇᾈᾉᾊᾋᾌᾍᾎᾏᾐᾑᾒᾓᾔᾕᾖᾗᾘᾙᾚᾛᾜᾝᾞᾟᾠᾡᾢᾣᾤᾥᾦᾧᾨᾩᾪᾫᾬᾭᾮᾯᾰᾱᾲᾳᾴ᾵ᾶᾷᾸᾹᾺΆᾼ᾽ι᾿῀῁ῂῃῄ῅ῆῇῈΈῊΉῌ῍῎῏ῐῑῒΐ῔῕ῖῗῘῙῚΊ῜῝῞῟ῠῡῢΰῤῥῦῧῨῩῪΎῬ῭΅`῰῱ῲῳῴ῵ῶῷῸΌῺΏῼ´῾῿₀₁₂₃₄₅₆₇₈₉₊₋₌₍₎₏ₐₑₒₓₔₕₖₗₘₙₚₛₜ₝₞₟₠₡₢₣₤₥₦₧₨₩₪₫€₭₮₯₰₱₲₳₴₵₶₷₸₹₺₻₼₽₾₿⃀⃁⃂⃃⃄⃅⃆⃇⃈⃉⃊⃋⃌⃍⃎⃏⃒⃓⃘⃙⃚⃐⃑⃔⃕⃖⃗⃛⃜⃝⃞⃟⃠⃡⃢⃣⃤⃥⃦⃪⃫⃨⃬⃭⃮⃯⃧⃩⃰⃱⃲⃳⃴⃵⃶⃷⃸⃹⃺⃻⃼⃽⃾⃿ↀↁↂↃↄↅↆↇↈ↉↊↋↌↍↎↏←↑→↓↔↕↖↗↘↙↚↛↜↝↞↟↠↡↢↣↤↥↦↧↨↩↪↫↬↭↮↯↰↱↲↳↴↵↶↷↸↹↺↻↼↽↾↿⇀⇁⇂⇃⇄⇅⇆⇇⇈⇉⇊⇋⇌⇍⇎⇏⇐⇑⇒⇓⇔⇕⇖⇗⇘⇙⇚⇛⇜⇝⇞⇟⇠⇡⇢⇣⇤⇥⇦⇧⇨⇩⇪⇫⇬⇭⇮⇯⇰⇱⇲⇳⇴⇵⇶⇷⇸⇹⇺⇻⇼⇽⇾⇿⊀⊁⊂⊃⊄⊅⊆⊇⊈⊉⊊⊋⊌⊍⊎⊏⊐⊑⊒⊓⊔⊕⊖⊗⊘⊙⊚⊛⊜⊝⊞⊟⊠⊡⊢⊣⊤⊥⊦⊧⊨⊩⊪⊫⊬⊭⊮⊯⊰⊱⊲⊳⊴⊵⊶⊷⊸⊹⊺⊻⊼⊽⊾⊿⋀⋁⋂⋃⋄⋅⋆⋇⋈⋉⋊⋋⋌⋍⋎⋏⋐⋑⋒⋓⋔⋕⋖⋗⋘⋙⋚⋛⋜⋝⋞⋟⋠⋡⋢⋣⋤⋥⋦⋧⋨⋩⋪⋫⋬⋭⋮⋯⋰⋱⋲⋳⋴⋵⋶⋷⋸⋹⋺⋻⋼⋽⋾⋿⎀⎁⎂⎃⎄⎅⎆⎇⎈⎉⎊⎋⎌⎍⎎⎏⎐⎑⎒⎓⎔⎕⎖⎗⎘⎙⎚⎛⎜⎝⎞⎟⎠⎡⎢⎣⎤⎥⎦⎧⎨⎩⎪⎫⎬⎭⎮⎯⎰⎱⎲⎳⎴⎵⎶⎷⎸⎹⎺⎻⎼⎽⎾⎿⏀⏁⏂⏃⏄⏅⏆⏇⏈⏉⏊⏋⏌⏍⏎⏏⏐⏑⏒⏓⏔⏕⏖⏗⏘⏙⏚⏛⏜⏝⏞⏟⏠⏡⏢⏣⏤⏥⏦⏧⏨⏩⏪⏫⏬⏭⏮⏯⏰⏱⏲⏳⏴⏵⏶⏷⏸⏹⏺⏻⏼⏽⏾⏿⒀⒁⒂⒃⒄⒅⒆⒇⒈⒉⒊⒋⒌⒍⒎⒏⒐⒑⒒⒓⒔⒕⒖⒗⒘⒙⒚⒛⒜⒝⒞⒟⒠⒡⒢⒣⒤⒥⒦⒧⒨⒩⒪⒫⒬⒭⒮⒯⒰⒱⒲⒳⒴⒵ⒶⒷⒸⒹⒺⒻⒼⒽⒾⒿⓀⓁⓂⓃⓄⓅⓆⓇⓈⓉⓊⓋⓌⓍⓎⓏⓐⓑⓒⓓⓔⓕⓖⓗⓘⓙⓚⓛⓜⓝⓞⓟⓠⓡⓢⓣⓤⓥⓦⓧⓨⓩ⓪⓫⓬⓭⓮⓯⓰⓱⓲⓳⓴⓵⓶⓷⓸⓹⓺⓻⓼⓽⓾⓿▀▁▂▃▄▅▆▇█▉▊▋▌▍▎▏▐░▒▓▔▕▖▗▘▙▚▛▜▝▞▟■□▢▣▤▥▦▧▨▩▪▫▬▭▮▯▰▱▲△▴▵▶▷▸▹►▻▼▽▾▿◀◁◂◃◄◅◆◇◈◉◊○◌◍◎●◐◑◒◓◔◕◖◗◘◙◚◛◜◝◞◟◠◡◢◣◤◥◦◧◨◩◪◫◬◭◮◯◰◱◲◳◴◵◶◷◸◹◺◻◼◽◾◿⚀⚁⚂⚃⚄⚅⚆⚇⚈⚉⚊⚋⚌⚍⚎⚏⚐⚑⚒⚓⚔⚕⚖⚗⚘⚙⚚⚛⚜⚝⚞⚟⚠⚡⚢⚣⚤⚥⚦⚧⚨⚩⚪⚫⚬⚭⚮⚯⚰⚱⚲⚳⚴⚵⚶⚷⚸⚹⚺⚻⚼⚽⚾⚿⛀⛁⛂⛃⛄⛅⛆⛇⛈⛉⛊⛋⛌⛍⛎⛏⛐⛑⛒⛓⛔⛕⛖⛗⛘⛙⛚⛛⛜⛝⛞⛟⛠⛡⛢⛣⛤⛥⛦⛧⛨⛩⛪⛫⛬⛭⛮⛯⛰⛱⛲⛳⛴⛵⛶⛷⛸⛹⛺⛻⛼⛽⛾⛿➀➁➂➃➄➅➆➇➈➉➊➋➌➍➎➏➐➑➒➓➔➕➖➗➘➙➚➛➜➝➞➟➠➡➢➣➤➥➦➧➨➩➪➫➬➭➮➯➰➱➲➳➴➵➶➷➸➹➺➻➼➽➾➿⟀⟁⟂⟃⟄⟅⟆⟇⟈⟉⟊⟋⟌⟍⟎⟏⟐⟑⟒⟓⟔⟕⟖⟗⟘⟙⟚⟛⟜⟝⟞⟟⟠⟡⟢⟣⟤⟥⟦⟧⟨⟩⟪⟫⟬⟭⟮⟯⟰⟱⟲⟳⟴⟵⟶⟷⟸⟹⟺⟻⟼⟽⟾⟿⢀⢁⢂⢃⢄⢅⢆⢇⢈⢉⢊⢋⢌⢍⢎⢏⢐⢑⢒⢓⢔⢕⢖⢗⢘⢙⢚⢛⢜⢝⢞⢟⢠⢡⢢⢣⢤⢥⢦⢧⢨⢩⢪⢫⢬⢭⢮⢯⢰⢱⢲⢳⢴⢵⢶⢷⢸⢹⢺⢻⢼⢽⢾⢿⣀⣁⣂⣃⣄⣅⣆⣇⣈⣉⣊⣋⣌⣍⣎⣏⣐⣑⣒⣓⣔⣕⣖⣗⣘⣙⣚⣛⣜⣝⣞⣟⣠⣡⣢⣣⣤⣥⣦⣧⣨⣩⣪⣫⣬⣭⣮⣯⣰⣱⣲⣳⣴⣵⣶⣷⣸⣹⣺⣻⣼⣽⣾⣿⦀⦁⦂⦃⦄⦅⦆⦇⦈⦉⦊⦋⦌⦍⦎⦏⦐⦑⦒⦓⦔⦕⦖⦗⦘⦙⦚⦛⦜⦝⦞⦟⦠⦡⦢⦣⦤⦥⦦⦧⦨⦩⦪⦫⦬⦭⦮⦯⦰⦱⦲⦳⦴⦵⦶⦷⦸⦹⦺⦻⦼⦽⦾⦿⧀⧁⧂⧃⧄⧅⧆⧇⧈⧉⧊⧋⧌⧍⧎⧏⧐⧑⧒⧓⧔⧕⧖⧗⧘⧙⧚⧛⧜⧝⧞⧟⧠⧡⧢⧣⧤⧥⧦⧧⧨⧩⧪⧫⧬⧭⧮⧯⧰⧱⧲⧳⧴⧵⧶⧷⧸⧹⧺⧻⧼⧽⧾⧿⪀⪁⪂⪃⪄⪅⪆⪇⪈⪉⪊⪋⪌⪍⪎⪏⪐⪑⪒⪓⪔⪕⪖⪗⪘⪙⪚⪛⪜⪝⪞⪟⪠⪡⪢⪣⪤⪥⪦⪧⪨⪩⪪⪫⪬⪭⪮⪯⪰⪱⪲⪳⪴⪵⪶⪷⪸⪹⪺⪻⪼⪽⪾⪿⫀⫁⫂⫃⫄⫅⫆⫇⫈⫉⫊⫋⫌⫍⫎⫏⫐⫑⫒⫓⫔⫕⫖⫗⫘⫙⫚⫛⫝̸⫝⫞⫟⫠⫡⫢⫣⫤⫥⫦⫧⫨⫩⫪⫫⫬⫭⫮⫯⫰⫱⫲⫳⫴⫵⫶⫷⫸⫹⫺⫻⫼⫽⫾⫿⮀⮁⮂⮃⮄⮅⮆⮇⮈⮉⮊⮋⮌⮍⮎⮏⮐⮑⮒⮓⮔⮕⮖⮗⮘⮙⮚⮛⮜⮝⮞⮟⮠⮡⮢⮣⮤⮥⮦⮧⮨⮩⮪⮫⮬⮭⮮⮯⮰⮱⮲⮳⮴⮵⮶⮷⮸⮹⮺⮻⮼⮽⮾⮿⯀⯁⯂⯃⯄⯅⯆⯇⯈⯉⯊⯋⯌⯍⯎⯏⯐⯑⯒⯓⯔⯕⯖⯗⯘⯙⯚⯛⯜⯝⯞⯟⯠⯡⯢⯣⯤⯥⯦⯧⯨⯩⯪⯫⯬⯭⯮⯯⯰⯱⯲⯳⯴⯵⯶⯷⯸⯹⯺⯻⯼⯽⯾⯿ⲀⲁⲂⲃⲄⲅⲆⲇⲈⲉⲊⲋⲌⲍⲎⲏⲐⲑⲒⲓⲔⲕⲖⲗⲘⲙⲚⲛⲜⲝⲞⲟⲠⲡⲢⲣⲤⲥⲦⲧⲨⲩⲪⲫⲬⲭⲮⲯⲰⲱⲲⲳⲴⲵⲶⲷⲸⲹⲺⲻⲼⲽⲾⲿⳀⳁⳂⳃⳄⳅⳆⳇⳈⳉⳊⳋⳌⳍⳎⳏⳐⳑⳒⳓⳔⳕⳖⳗⳘⳙⳚⳛⳜⳝⳞⳟⳠⳡⳢⳣⳤ⳥⳦⳧⳨⳩⳪ⳫⳬⳭⳮ⳯⳰⳱Ⳳⳳ⳴⳵⳶⳷⳸⳹⳺⳻⳼⳽⳾⳿ⶀⶁⶂⶃⶄⶅⶆⶇⶈⶉⶊⶋⶌⶍⶎⶏⶐⶑⶒⶓⶔⶕⶖ⶗⶘⶙⶚⶛⶜⶝⶞⶟ⶠⶡⶢⶣⶤⶥⶦ⶧ⶨⶩⶪⶫⶬⶭⶮ⶯ⶰⶱⶲⶳⶴⶵⶶ⶷ⶸⶹⶺⶻⶼⶽⶾ⶿ⷀⷁⷂⷃⷄⷅⷆ⷇ⷈⷉⷊⷋⷌⷍⷎ⷏ⷐⷑⷒⷓⷔⷕⷖ⷗ⷘⷙⷚⷛⷜⷝⷞ⷟ⷠⷡⷢⷣⷤⷥⷦⷧⷨⷩⷪⷫⷬⷭⷮⷯⷰⷱⷲⷳⷴⷵⷶⷷⷸⷹⷺⷻⷼⷽⷾⷿ⺀⺁⺂⺃⺄⺅⺆⺇⺈⺉⺊⺋⺌⺍⺎⺏⺐⺑⺒⺓⺔⺕⺖⺗⺘⺙⺚⺛⺜⺝⺞⺟⺠⺡⺢⺣⺤⺥⺦⺧⺨⺩⺪⺫⺬⺭⺮⺯⺰⺱⺲⺳⺴⺵⺶⺷⺸⺹⺺⺻⺼⺽⺾⺿⻀⻁⻂⻃⻄⻅⻆⻇⻈⻉⻊⻋⻌⻍⻎⻏⻐⻑⻒⻓⻔⻕⻖⻗⻘⻙⻚⻛⻜⻝⻞⻟⻠⻡⻢⻣⻤⻥⻦⻧⻨⻩⻪⻫⻬⻭⻮⻯⻰⻱⻲⻳⻴⻵⻶⻷⻸⻹⻺⻻⻼⻽⻾⻿⾀⾁⾂⾃⾄⾅⾆⾇⾈⾉⾊⾋⾌⾍⾎⾏⾐⾑⾒⾓⾔⾕⾖⾗⾘⾙⾚⾛⾜⾝⾞⾟⾠⾡⾢⾣⾤⾥⾦⾧⾨⾩⾪⾫⾬⾭⾮⾯⾰⾱⾲⾳⾴⾵⾶⾷⾸⾹⾺⾻⾼⾽⾾⾿⿀⿁⿂⿃⿄⿅⿆⿇⿈⿉⿊⿋⿌⿍⿎⿏⿐⿑⿒⿓⿔⿕⿖⿗⿘⿙⿚⿛⿜⿝⿞⿟⿠⿡⿢⿣⿤⿥⿦⿧⿨⿩⿪⿫⿬⿭⿮⿯⿰⿱⿲⿳⿴⿵⿶⿷⿸⿹⿺⿻⿼⿽⿾⿿むめもゃやゅゆょよらりるれろゎわゐゑをんゔゕゖ゗゘゙゚゛゜ゝゞゟ゠ァアィイゥウェエォオカガキギクグケゲコゴサザシジスズセゼソゾタダチヂッツヅテデトドナニヌネノハバパヒビピフブプヘベペホボポマミムメモャヤュユョヨラリルレロヮワヰヱヲンヴヵヶヷヸヹヺ・ーヽヾヿㆀㆁㆂㆃㆄㆅㆆㆇㆈㆉㆊㆋㆌㆍㆎ㆏㆐㆑㆒㆓㆔㆕㆖㆗㆘㆙㆚㆛㆜㆝㆞㆟ㆠㆡㆢㆣㆤㆥㆦㆧㆨㆩㆪㆫㆬㆭㆮㆯㆰㆱㆲㆳㆴㆵㆶㆷㆸㆹㆺㆻㆼㆽㆾㆿ㇀㇁㇂㇃㇄㇅㇆㇇㇈㇉㇊㇋㇌㇍㇎㇏㇐㇑㇒㇓㇔㇕㇖㇗㇘㇙㇚㇛㇜㇝㇞㇟㇠㇡㇢㇣㇤㇥㇦㇧㇨㇩㇪㇫㇬㇭㇮㇯ㇰㇱㇲㇳㇴㇵㇶㇷㇸㇹㇺㇻㇼㇽㇾㇿ㊀㊁㊂㊃㊄㊅㊆㊇㊈㊉㊊㊋㊌㊍㊎㊏㊐㊑㊒㊓㊔㊕㊖㊗㊘㊙㊚㊛㊜㊝㊞㊟㊠㊡㊢㊣㊤㊥㊦㊧㊨㊩㊪㊫㊬㊭㊮㊯㊰㊱㊲㊳㊴㊵㊶㊷㊸㊹㊺㊻㊼㊽㊾㊿㋀㋁㋂㋃㋄㋅㋆㋇㋈㋉㋊㋋㋌㋍㋎㋏㋐㋑㋒㋓㋔㋕㋖㋗㋘㋙㋚㋛㋜㋝㋞㋟㋠㋡㋢㋣㋤㋥㋦㋧㋨㋩㋪㋫㋬㋭㋮㋯㋰㋱㋲㋳㋴㋵㋶㋷㋸㋹㋺㋻㋼㋽㋾㋿㎀㎁㎂㎃㎄㎅㎆㎇㎈㎉㎊㎋㎌㎍㎎㎏㎐㎑㎒㎓㎔㎕㎖㎗㎘㎙㎚㎛㎜㎝㎞㎟㎠㎡㎢㎣㎤㎥㎦㎧㎨㎩㎪㎫㎬㎭㎮㎯㎰㎱㎲㎳㎴㎵㎶㎷㎸㎹㎺㎻㎼㎽㎾㎿㏀㏁㏂㏃㏄㏅㏆㏇㏈㏉㏊㏋㏌㏍㏎㏏㏐㏑㏒㏓㏔㏕㏖㏗㏘㏙㏚㏛㏜㏝㏞㏟㏠㏡㏢㏣㏤㏥㏦㏧㏨㏩㏪㏫㏬㏭㏮㏯㏰㏱㏲㏳㏴㏵㏶㏷㏸㏹㏺㏻㏼㏽㏾㏿㒀㒁㒂㒃㒄㒅㒆㒇㒈㒉㒊㒋㒌㒍㒎㒏㒐㒑㒒㒓㒔㒕㒖㒗㒘㒙㒚㒛㒜㒝㒞㒟㒠㒡㒢㒣㒤㒥㒦㒧㒨㒩㒪㒫㒬㒭㒮㒯㒰㒱㒲㒳㒴㒵㒶㒷㒸㒹㒺㒻㒼㒽㒾㒿㓀㓁㓂㓃㓄㓅㓆㓇㓈㓉㓊㓋㓌㓍㓎㓏㓐㓑㓒㓓㓔㓕㓖㓗㓘㓙㓚㓛㓜㓝㓞㓟㓠㓡㓢㓣㓤㓥㓦㓧㓨㓩㓪㓫㓬㓭㓮㓯㓰㓱㓲㓳㓴㓵㓶㓷㓸㓹㓺㓻㓼㓽㓾㓿㖀㖁㖂㖃㖄㖅㖆㖇㖈㖉㖊㖋㖌㖍㖎㖏㖐㖑㖒㖓㖔㖕㖖㖗㖘㖙㖚㖛㖜㖝㖞㖟㖠㖡㖢㖣㖤㖥㖦㖧㖨㖩㖪㖫㖬㖭㖮㖯㖰㖱㖲㖳㖴㖵㖶㖷㖸㖹㖺㖻㖼㖽㖾㖿㗀㗁㗂㗃㗄㗅㗆㗇㗈㗉㗊㗋㗌㗍㗎㗏㗐㗑㗒㗓㗔㗕㗖㗗㗘㗙㗚㗛㗜㗝㗞㗟㗠㗡㗢㗣㗤㗥㗦㗧㗨㗩㗪㗫㗬㗭㗮㗯㗰㗱㗲㗳㗴㗵㗶㗷㗸㗹㗺㗻㗼㗽㗾㗿㚀㚁㚂㚃㚄㚅㚆㚇㚈㚉㚊㚋㚌㚍㚎㚏㚐㚑㚒㚓㚔㚕㚖㚗㚘㚙㚚㚛㚜㚝㚞㚟㚠㚡㚢㚣㚤㚥㚦㚧㚨㚩㚪㚫㚬㚭㚮㚯㚰㚱㚲㚳㚴㚵㚶㚷㚸㚹㚺㚻㚼㚽㚾㚿㛀㛁㛂㛃㛄㛅㛆㛇㛈㛉㛊㛋㛌㛍㛎㛏㛐㛑㛒㛓㛔㛕㛖㛗㛘㛙㛚㛛㛜㛝㛞㛟㛠㛡㛢㛣㛤㛥㛦㛧㛨㛩㛪㛫㛬㛭㛮㛯㛰㛱㛲㛳㛴㛵㛶㛷㛸㛹㛺㛻㛼㛽㛾㛿㞀㞁㞂㞃㞄㞅㞆㞇㞈㞉㞊㞋㞌㞍㞎㞏㞐㞑㞒㞓㞔㞕㞖㞗㞘㞙㞚㞛㞜㞝㞞㞟㞠㞡㞢㞣㞤㞥㞦㞧㞨㞩㞪㞫㞬㞭㞮㞯㞰㞱㞲㞳㞴㞵㞶㞷㞸㞹㞺㞻㞼㞽㞾㞿㟀㟁㟂㟃㟄㟅㟆㟇㟈㟉㟊㟋㟌㟍㟎㟏㟐㟑㟒㟓㟔㟕㟖㟗㟘㟙㟚㟛㟜㟝㟞㟟㟠㟡㟢㟣㟤㟥㟦㟧㟨㟩㟪㟫㟬㟭㟮㟯㟰㟱㟲㟳㟴㟵㟶㟷㟸㟹㟺㟻㟼㟽㟾㟿㢀㢁㢂㢃㢄㢅㢆㢇㢈㢉㢊㢋㢌㢍㢎㢏㢐㢑㢒㢓㢔㢕㢖㢗㢘㢙㢚㢛㢜㢝㢞㢟㢠㢡㢢㢣㢤㢥㢦㢧㢨㢩㢪㢫㢬㢭㢮㢯㢰㢱㢲㢳㢴㢵㢶㢷㢸㢹㢺㢻㢼㢽㢾㢿㣀㣁㣂㣃㣄㣅㣆㣇㣈㣉㣊㣋㣌㣍㣎㣏㣐㣑㣒㣓㣔㣕㣖㣗㣘㣙㣚㣛㣜㣝㣞㣟㣠㣡㣢㣣㣤㣥㣦㣧㣨㣩㣪㣫㣬㣭㣮㣯㣰㣱㣲㣳㣴㣵㣶㣷㣸㣹㣺㣻㣼㣽㣾㣿㦀㦁㦂㦃㦄㦅㦆㦇㦈㦉㦊㦋㦌㦍㦎㦏㦐㦑㦒㦓㦔㦕㦖㦗㦘㦙㦚㦛㦜㦝㦞㦟㦠㦡㦢㦣㦤㦥㦦㦧㦨㦩㦪㦫㦬㦭㦮㦯㦰㦱㦲㦳㦴㦵㦶㦷㦸㦹㦺㦻㦼㦽㦾㦿㧀㧁㧂㧃㧄㧅㧆㧇㧈㧉㧊㧋㧌㧍㧎㧏㧐㧑㧒㧓㧔㧕㧖㧗㧘㧙㧚㧛㧜㧝㧞㧟㧠㧡㧢㧣㧤㧥㧦㧧㧨㧩㧪㧫㧬㧭㧮㧯㧰㧱㧲㧳㧴㧵㧶㧷㧸㧹㧺㧻㧼㧽㧾㧿㪀㪁㪂㪃㪄㪅㪆㪇㪈㪉㪊㪋㪌㪍㪎㪏㪐㪑㪒㪓㪔㪕㪖㪗㪘㪙㪚㪛㪜㪝㪞㪟㪠㪡㪢㪣㪤㪥㪦㪧㪨㪩㪪㪫㪬㪭㪮㪯㪰㪱㪲㪳㪴㪵㪶㪷㪸㪹㪺㪻㪼㪽㪾㪿㫀㫁㫂㫃㫄㫅㫆㫇㫈㫉㫊㫋㫌㫍㫎㫏㫐㫑㫒㫓㫔㫕㫖㫗㫘㫙㫚㫛㫜㫝㫞㫟㫠㫡㫢㫣㫤㫥㫦㫧㫨㫩㫪㫫㫬㫭㫮㫯㫰㫱㫲㫳㫴㫵㫶㫷㫸㫹㫺㫻㫼㫽㫾㫿㮀㮁㮂㮃㮄㮅㮆㮇㮈㮉㮊㮋㮌㮍㮎㮏㮐㮑㮒㮓㮔㮕㮖㮗㮘㮙㮚㮛㮜㮝㮞㮟㮠㮡㮢㮣㮤㮥㮦㮧㮨㮩㮪㮫㮬㮭㮮㮯㮰㮱㮲㮳㮴㮵㮶㮷㮸㮹㮺㮻㮼㮽㮾㮿㯀㯁㯂㯃㯄㯅㯆㯇㯈㯉㯊㯋㯌㯍㯎㯏㯐㯑㯒㯓㯔㯕㯖㯗㯘㯙㯚㯛㯜㯝㯞㯟㯠㯡㯢㯣㯤㯥㯦㯧㯨㯩㯪㯫㯬㯭㯮㯯㯰㯱㯲㯳㯴㯵㯶㯷㯸㯹㯺㯻㯼㯽㯾㯿㲀㲁㲂㲃㲄㲅㲆㲇㲈㲉㲊㲋㲌㲍㲎㲏㲐㲑㲒㲓㲔㲕㲖㲗㲘㲙㲚㲛㲜㲝㲞㲟㲠㲡㲢㲣㲤㲥㲦㲧㲨㲩㲪㲫㲬㲭㲮㲯㲰㲱㲲㲳㲴㲵㲶㲷㲸㲹㲺㲻㲼㲽㲾㲿㳀㳁㳂㳃㳄㳅㳆㳇㳈㳉㳊㳋㳌㳍㳎㳏㳐㳑㳒㳓㳔㳕㳖㳗㳘㳙㳚㳛㳜㳝㳞㳟㳠㳡㳢㳣㳤㳥㳦㳧㳨㳩㳪㳫㳬㳭㳮㳯㳰㳱㳲㳳㳴㳵㳶㳷㳸㳹㳺㳻㳼㳽㳾㳿㶀㶁㶂㶃㶄㶅㶆㶇㶈㶉㶊㶋㶌㶍㶎㶏㶐㶑㶒㶓㶔㶕㶖㶗㶘㶙㶚㶛㶜㶝㶞㶟㶠㶡㶢㶣㶤㶥㶦㶧㶨㶩㶪㶫㶬㶭㶮㶯㶰㶱㶲㶳㶴㶵㶶㶷㶸㶹㶺㶻㶼㶽㶾㶿㷀㷁㷂㷃㷄㷅㷆㷇㷈㷉㷊㷋㷌㷍㷎㷏㷐㷑㷒㷓㷔㷕㷖㷗㷘㷙㷚㷛㷜㷝㷞㷟㷠㷡㷢㷣㷤㷥㷦㷧㷨㷩㷪㷫㷬㷭㷮㷯㷰㷱㷲㷳㷴㷵㷶㷷㷸㷹㷺㷻㷼㷽㷾㷿㺀㺁㺂㺃㺄㺅㺆㺇㺈㺉㺊㺋㺌㺍㺎㺏㺐㺑㺒㺓㺔㺕㺖㺗㺘㺙㺚㺛㺜㺝㺞㺟㺠㺡㺢㺣㺤㺥㺦㺧㺨㺩㺪㺫㺬㺭㺮㺯㺰㺱㺲㺳㺴㺵㺶㺷㺸㺹㺺㺻㺼㺽㺾㺿㻀㻁㻂㻃㻄㻅㻆㻇㻈㻉㻊㻋㻌㻍㻎㻏㻐㻑㻒㻓㻔㻕㻖㻗㻘㻙㻚㻛㻜㻝㻞㻟㻠㻡㻢㻣㻤㻥㻦㻧㻨㻩㻪㻫㻬㻭㻮㻯㻰㻱㻲㻳㻴㻵㻶㻷㻸㻹㻺㻻㻼㻽㻾㻿㾀㾁㾂㾃㾄㾅㾆㾇㾈㾉㾊㾋㾌㾍㾎㾏㾐㾑㾒㾓㾔㾕㾖㾗㾘㾙㾚㾛㾜㾝㾞㾟㾠㾡㾢㾣㾤㾥㾦㾧㾨㾩㾪㾫㾬㾭㾮㾯㾰㾱㾲㾳㾴㾵㾶㾷㾸㾹㾺㾻㾼㾽㾾㾿㿀㿁㿂㿃㿄㿅㿆㿇㿈㿉㿊㿋㿌㿍㿎㿏㿐㿑㿒㿓㿔㿕㿖㿗㿘㿙㿚㿛㿜㿝㿞㿟㿠㿡㿢㿣㿤㿥㿦㿧㿨㿩㿪㿫㿬㿭㿮㿯㿰㿱㿲㿳㿴㿵㿶㿷㿸㿹㿺㿻㿼㿽㿾㿿䂀䂁䂂䂃䂄䂅䂆䂇䂈䂉䂊䂋䂌䂍䂎䂏䂐䂑䂒䂓䂔䂕䂖䂗䂘䂙䂚䂛䂜䂝䂞䂟䂠䂡䂢䂣䂤䂥䂦䂧䂨䂩䂪䂫䂬䂭䂮䂯䂰䂱䂲䂳䂴䂵䂶䂷䂸䂹䂺䂻䂼䂽䂾䂿䃀䃁䃂䃃䃄䃅䃆䃇䃈䃉䃊䃋䃌䃍䃎䃏䃐䃑䃒䃓䃔䃕䃖䃗䃘䃙䃚䃛䃜䃝䃞䃟䃠䃡䃢䃣䃤䃥䃦䃧䃨䃩䃪䃫䃬䃭䃮䃯䃰䃱䃲䃳䃴䃵䃶䃷䃸䃹䃺䃻䃼䃽䃾䃿䆀䆁䆂䆃䆄䆅䆆䆇䆈䆉䆊䆋䆌䆍䆎䆏䆐䆑䆒䆓䆔䆕䆖䆗䆘䆙䆚䆛䆜䆝䆞䆟䆠䆡䆢䆣䆤䆥䆦䆧䆨䆩䆪䆫䆬䆭䆮䆯䆰䆱䆲䆳䆴䆵䆶䆷䆸䆹䆺䆻䆼䆽䆾䆿䇀䇁䇂䇃䇄䇅䇆䇇䇈䇉䇊䇋䇌䇍䇎䇏䇐䇑䇒䇓䇔䇕䇖䇗䇘䇙䇚䇛䇜䇝䇞䇟䇠䇡䇢䇣䇤䇥䇦䇧䇨䇩䇪䇫䇬䇭䇮䇯䇰䇱䇲䇳䇴䇵䇶䇷䇸䇹䇺䇻䇼䇽䇾䇿䊀䊁䊂䊃䊄䊅䊆䊇䊈䊉䊊䊋䊌䊍䊎䊏䊐䊑䊒䊓䊔䊕䊖䊗䊘䊙䊚䊛䊜䊝䊞䊟䊠䊡䊢䊣䊤䊥䊦䊧䊨䊩䊪䊫䊬䊭䊮䊯䊰䊱䊲䊳䊴䊵䊶䊷䊸䊹䊺䊻䊼䊽䊾䊿䋀䋁䋂䋃䋄䋅䋆䋇䋈䋉䋊䋋䋌䋍䋎䋏䋐䋑䋒䋓䋔䋕䋖䋗䋘䋙䋚䋛䋜䋝䋞䋟䋠䋡䋢䋣䋤䋥䋦䋧䋨䋩䋪䋫䋬䋭䋮䋯䋰䋱䋲䋳䋴䋵䋶䋷䋸䋹䋺䋻䋼䋽䋾䋿䎀䎁䎂䎃䎄䎅䎆䎇䎈䎉䎊䎋䎌䎍䎎䎏䎐䎑䎒䎓䎔䎕䎖䎗䎘䎙䎚䎛䎜䎝䎞䎟䎠䎡䎢䎣䎤䎥䎦䎧䎨䎩䎪䎫䎬䎭䎮䎯䎰䎱䎲䎳䎴䎵䎶䎷䎸䎹䎺䎻䎼䎽䎾䎿䏀䏁䏂䏃䏄䏅䏆䏇䏈䏉䏊䏋䏌䏍䏎䏏䏐䏑䏒䏓䏔䏕䏖䏗䏘䏙䏚䏛䏜䏝䏞䏟䏠䏡䏢䏣䏤䏥䏦䏧䏨䏩䏪䏫䏬䏭䏮䏯䏰䏱䏲䏳䏴䏵䏶䏷䏸䏹䏺䏻䏼䏽䏾䏿䒀䒁䒂䒃䒄䒅䒆䒇䒈䒉䒊䒋䒌䒍䒎䒏䒐䒑䒒䒓䒔䒕䒖䒗䒘䒙䒚䒛䒜䒝䒞䒟䒠䒡䒢䒣䒤䒥䒦䒧䒨䒩䒪䒫䒬䒭䒮䒯䒰䒱䒲䒳䒴䒵䒶䒷䒸䒹䒺䒻䒼䒽䒾䒿䓀䓁䓂䓃䓄䓅䓆䓇䓈䓉䓊䓋䓌䓍䓎䓏䓐䓑䓒䓓䓔䓕䓖䓗䓘䓙䓚䓛䓜䓝䓞䓟䓠䓡䓢䓣䓤䓥䓦䓧䓨䓩䓪䓫䓬䓭䓮䓯䓰䓱䓲䓳䓴䓵䓶䓷䓸䓹䓺䓻䓼䓽䓾䓿䖀䖁䖂䖃䖄䖅䖆䖇䖈䖉䖊䖋䖌䖍䖎䖏䖐䖑䖒䖓䖔䖕䖖䖗䖘䖙䖚䖛䖜䖝䖞䖟䖠䖡䖢䖣䖤䖥䖦䖧䖨䖩䖪䖫䖬䖭䖮䖯䖰䖱䖲䖳䖴䖵䖶䖷䖸䖹䖺䖻䖼䖽䖾䖿䗀䗁䗂䗃䗄䗅䗆䗇䗈䗉䗊䗋䗌䗍䗎䗏䗐䗑䗒䗓䗔䗕䗖䗗䗘䗙䗚䗛䗜䗝䗞䗟䗠䗡䗢䗣䗤䗥䗦䗧䗨䗩䗪䗫䗬䗭䗮䗯䗰䗱䗲䗳䗴䗵䗶䗷䗸䗹䗺䗻䗼䗽䗾䗿䚀䚁䚂䚃䚄䚅䚆䚇䚈䚉䚊䚋䚌䚍䚎䚏䚐䚑䚒䚓䚔䚕䚖䚗䚘䚙䚚䚛䚜䚝䚞䚟䚠䚡䚢䚣䚤䚥䚦䚧䚨䚩䚪䚫䚬䚭䚮䚯䚰䚱䚲䚳䚴䚵䚶䚷䚸䚹䚺䚻䚼䚽䚾䚿䛀䛁䛂䛃䛄䛅䛆䛇䛈䛉䛊䛋䛌䛍䛎䛏䛐䛑䛒䛓䛔䛕䛖䛗䛘䛙䛚䛛䛜䛝䛞䛟䛠䛡䛢䛣䛤䛥䛦䛧䛨䛩䛪䛫䛬䛭䛮䛯䛰䛱䛲䛳䛴䛵䛶䛷䛸䛹䛺䛻䛼䛽䛾䛿䞀䞁䞂䞃䞄䞅䞆䞇䞈䞉䞊䞋䞌䞍䞎䞏䞐䞑䞒䞓䞔䞕䞖䞗䞘䞙䞚䞛䞜䞝䞞䞟䞠䞡䞢䞣䞤䞥䞦䞧䞨䞩䞪䞫䞬䞭䞮䞯䞰䞱䞲䞳䞴䞵䞶䞷䞸䞹䞺䞻䞼䞽䞾䞿䟀䟁䟂䟃䟄䟅䟆䟇䟈䟉䟊䟋䟌䟍䟎䟏䟐䟑䟒䟓䟔䟕䟖䟗䟘䟙䟚䟛䟜䟝䟞䟟䟠䟡䟢䟣䟤䟥䟦䟧䟨䟩䟪䟫䟬䟭䟮䟯䟰䟱䟲䟳䟴䟵䟶䟷䟸䟹䟺䟻䟼䟽䟾䟿䢀䢁䢂䢃䢄䢅䢆䢇䢈䢉䢊䢋䢌䢍䢎䢏䢐䢑䢒䢓䢔䢕䢖䢗䢘䢙䢚䢛䢜䢝䢞䢟䢠䢡䢢䢣䢤䢥䢦䢧䢨䢩䢪䢫䢬䢭䢮䢯䢰䢱䢲䢳䢴䢵䢶䢷䢸䢹䢺䢻䢼䢽䢾䢿䣀䣁䣂䣃䣄䣅䣆䣇䣈䣉䣊䣋䣌䣍䣎䣏䣐䣑䣒䣓䣔䣕䣖䣗䣘䣙䣚䣛䣜䣝䣞䣟䣠䣡䣢䣣䣤䣥䣦䣧䣨䣩䣪䣫䣬䣭䣮䣯䣰䣱䣲䣳䣴䣵䣶䣷䣸䣹䣺䣻䣼䣽䣾䣿䦀䦁䦂䦃䦄䦅䦆䦇䦈䦉䦊䦋䦌䦍䦎䦏䦐䦑䦒䦓䦔䦕䦖䦗䦘䦙䦚䦛䦜䦝䦞䦟䦠䦡䦢䦣䦤䦥䦦䦧䦨䦩䦪䦫䦬䦭䦮䦯䦰䦱䦲䦳䦴䦵䦶䦷䦸䦹䦺䦻䦼䦽䦾䦿䧀䧁䧂䧃䧄䧅䧆䧇䧈䧉䧊䧋䧌䧍䧎䧏䧐䧑䧒䧓䧔䧕䧖䧗䧘䧙䧚䧛䧜䧝䧞䧟䧠䧡䧢䧣䧤䧥䧦䧧䧨䧩䧪䧫䧬䧭䧮䧯䧰䧱䧲䧳䧴䧵䧶䧷䧸䧹䧺䧻䧼䧽䧾䧿䪀䪁䪂䪃䪄䪅䪆䪇䪈䪉䪊䪋䪌䪍䪎䪏䪐䪑䪒䪓䪔䪕䪖䪗䪘䪙䪚䪛䪜䪝䪞䪟䪠䪡䪢䪣䪤䪥䪦䪧䪨䪩䪪䪫䪬䪭䪮䪯䪰䪱䪲䪳䪴䪵䪶䪷䪸䪹䪺䪻䪼䪽䪾䪿䫀䫁䫂䫃䫄䫅䫆䫇䫈䫉䫊䫋䫌䫍䫎䫏䫐䫑䫒䫓䫔䫕䫖䫗䫘䫙䫚䫛䫜䫝䫞䫟䫠䫡䫢䫣䫤䫥䫦䫧䫨䫩䫪䫫䫬䫭䫮䫯䫰䫱䫲䫳䫴䫵䫶䫷䫸䫹䫺䫻䫼䫽䫾䫿䮀䮁䮂䮃䮄䮅䮆䮇䮈䮉䮊䮋䮌䮍䮎䮏䮐䮑䮒䮓䮔䮕䮖䮗䮘䮙䮚䮛䮜䮝䮞䮟䮠䮡䮢䮣䮤䮥䮦䮧䮨䮩䮪䮫䮬䮭䮮䮯䮰䮱䮲䮳䮴䮵䮶䮷䮸䮹䮺䮻䮼䮽䮾䮿䯀䯁䯂䯃䯄䯅䯆䯇䯈䯉䯊䯋䯌䯍䯎䯏䯐䯑䯒䯓䯔䯕䯖䯗䯘䯙䯚䯛䯜䯝䯞䯟䯠䯡䯢䯣䯤䯥䯦䯧䯨䯩䯪䯫䯬䯭䯮䯯䯰䯱䯲䯳䯴䯵䯶䯷䯸䯹䯺䯻䯼䯽䯾䯿䲀䲁䲂䲃䲄䲅䲆䲇䲈䲉䲊䲋䲌䲍䲎䲏䲐䲑䲒䲓䲔䲕䲖䲗䲘䲙䲚䲛䲜䲝䲞䲟䲠䲡䲢䲣䲤䲥䲦䲧䲨䲩䲪䲫䲬䲭䲮䲯䲰䲱䲲䲳䲴䲵䲶䲷䲸䲹䲺䲻䲼䲽䲾䲿䳀䳁䳂䳃䳄䳅䳆䳇䳈䳉䳊䳋䳌䳍䳎䳏䳐䳑䳒䳓䳔䳕䳖䳗䳘䳙䳚䳛䳜䳝䳞䳟䳠䳡䳢䳣䳤䳥䳦䳧䳨䳩䳪䳫䳬䳭䳮䳯䳰䳱䳲䳳䳴䳵䳶䳷䳸䳹䳺䳻䳼䳽䳾䳿䶀䶁䶂䶃䶄䶅䶆䶇䶈䶉䶊䶋䶌䶍䶎䶏䶐䶑䶒䶓䶔䶕䶖䶗䶘䶙䶚䶛䶜䶝䶞䶟䶠䶡䶢䶣䶤䶥䶦䶧䶨䶩䶪䶫䶬䶭䶮䶯䶰䶱䶲䶳䶴䶵䶶䶷䶸䶹䶺䶻䶼䶽䶾䶿䷀䷁䷂䷃䷄䷅䷆䷇䷈䷉䷊䷋䷌䷍䷎䷏䷐䷑䷒䷓䷔䷕䷖䷗䷘䷙䷚䷛䷜䷝䷞䷟䷠䷡䷢䷣䷤䷥䷦䷧䷨䷩䷪䷫䷬䷭䷮䷯䷰䷱䷲䷳䷴䷵䷶䷷䷸䷹䷺䷻䷼䷽䷾䷿亀亁亂亃亄亅了亇予争亊事二亍于亏亐云互亓五井亖亗亘亙亚些亜亝亞亟亠亡亢亣交亥亦产亨亩亪享京亭亮亯亰亱亲亳亴亵亶亷亸亹人亻亼亽亾亿什仁仂仃仄仅仆仇仈仉今介仌仍从仏仐仑仒仓仔仕他仗付仙仚仛仜仝仞仟仠仡仢代令以仦仧仨仩仪仫们仭仮仯仰仱仲仳仴仵件价仸仹仺任仼份仾仿侀侁侂侃侄侅來侇侈侉侊例侌侍侎侏侐侑侒侓侔侕侖侗侘侙侚供侜依侞侟侠価侢侣侤侥侦侧侨侩侪侫侬侭侮侯侰侱侲侳侴侵侶侷侸侹侺侻侼侽侾便俀俁係促俄俅俆俇俈俉俊俋俌俍俎俏俐俑俒俓俔俕俖俗俘俙俚俛俜保俞俟俠信俢俣俤俥俦俧俨俩俪俫俬俭修俯俰俱俲俳俴俵俶俷俸俹俺俻俼俽俾俿傀傁傂傃傄傅傆傇傈傉傊傋傌傍傎傏傐傑傒傓傔傕傖傗傘備傚傛傜傝傞傟傠傡傢傣傤傥傦傧储傩傪傫催傭傮傯傰傱傲傳傴債傶傷傸傹傺傻傼傽傾傿僀僁僂僃僄僅僆僇僈僉僊僋僌働僎像僐僑僒僓僔僕僖僗僘僙僚僛僜僝僞僟僠僡僢僣僤僥僦僧僨僩僪僫僬僭僮僯僰僱僲僳僴僵僶僷僸價僺僻僼僽僾僿冀冁冂冃冄内円冇冈冉冊冋册再冎冏冐冑冒冓冔冕冖冗冘写冚军农冝冞冟冠冡冢冣冤冥冦冧冨冩冪冫冬冭冮冯冰冱冲决冴况冶冷冸冹冺冻冼冽冾冿净凁凂凃凄凅准凇凈凉凊凋凌凍凎减凐凑凒凓凔凕凖凗凘凙凚凛凜凝凞凟几凡凢凣凤凥処凧凨凩凪凫凬凭凮凯凰凱凲凳凴凵凶凷凸凹出击凼函凾凿劀劁劂劃劄劅劆劇劈劉劊劋劌劍劎劏劐劑劒劓劔劕劖劗劘劙劚力劜劝办功加务劢劣劤劥劦劧动助努劫劬劭劮劯劰励劲劳労劵劶劷劸効劺劻劼劽劾势勀勁勂勃勄勅勆勇勈勉勊勋勌勍勎勏勐勑勒勓勔動勖勗勘務勚勛勜勝勞募勠勡勢勣勤勥勦勧勨勩勪勫勬勭勮勯勰勱勲勳勴勵勶勷勸勹勺勻勼勽勾勿厀厁厂厃厄厅历厇厈厉厊压厌厍厎厏厐厑厒厓厔厕厖厗厘厙厚厛厜厝厞原厠厡厢厣厤厥厦厧厨厩厪厫厬厭厮厯厰厱厲厳厴厵厶厷厸厹厺去厼厽厾县叀叁参參叄叅叆叇又叉及友双反収叏叐发叒叓叔叕取受变叙叚叛叜叝叞叟叠叡叢口古句另叧叨叩只叫召叭叮可台叱史右叴叵叶号司叹叺叻叼叽叾叿咀咁咂咃咄咅咆咇咈咉咊咋和咍咎咏咐咑咒咓咔咕咖咗咘咙咚咛咜咝咞咟咠咡咢咣咤咥咦咧咨咩咪咫咬咭咮咯咰咱咲咳咴咵咶咷咸咹咺咻咼咽咾咿哀品哂哃哄哅哆哇哈哉哊哋哌响哎哏哐哑哒哓哔哕哖哗哘哙哚哛哜哝哞哟哠員哢哣哤哥哦哧哨哩哪哫哬哭哮哯哰哱哲哳哴哵哶哷哸哹哺哻哼哽哾哿喀喁喂喃善喅喆喇喈喉喊喋喌喍喎喏喐喑喒喓喔喕喖喗喘喙喚喛喜喝喞喟喠喡喢喣喤喥喦喧喨喩喪喫喬喭單喯喰喱喲喳喴喵営喷喸喹喺喻喼喽喾喿嗀嗁嗂嗃嗄嗅嗆嗇嗈嗉嗊嗋嗌嗍嗎嗏嗐嗑嗒嗓嗔嗕嗖嗗嗘嗙嗚嗛嗜嗝嗞嗟嗠嗡嗢嗣嗤嗥嗦嗧嗨嗩嗪嗫嗬嗭嗮嗯嗰嗱嗲嗳嗴嗵嗶嗷嗸嗹嗺嗻嗼嗽嗾嗿嚀嚁嚂嚃嚄嚅嚆嚇嚈嚉嚊嚋嚌嚍嚎嚏嚐嚑嚒嚓嚔嚕嚖嚗嚘嚙嚚嚛嚜嚝嚞嚟嚠嚡嚢嚣嚤嚥嚦嚧嚨嚩嚪嚫嚬嚭嚮嚯嚰嚱嚲嚳嚴嚵嚶嚷嚸嚹嚺嚻嚼嚽嚾嚿囀囁囂囃囄囅囆囇囈囉囊囋囌囍囎囏囐囑囒囓囔囕囖囗囘囙囚四囜囝回囟因囡团団囤囥囦囧囨囩囪囫囬园囮囯困囱囲図围囵囶囷囸囹固囻囼国图囿垀垁垂垃垄垅垆垇垈垉垊型垌垍垎垏垐垑垒垓垔垕垖垗垘垙垚垛垜垝垞垟垠垡垢垣垤垥垦垧垨垩垪垫垬垭垮垯垰垱垲垳垴垵垶垷垸垹垺垻垼垽垾垿埀埁埂埃埄埅埆埇埈埉埊埋埌埍城埏埐埑埒埓埔埕埖埗埘埙埚埛埜埝埞域埠埡埢埣埤埥埦埧埨埩埪埫埬埭埮埯埰埱埲埳埴埵埶執埸培基埻埼埽埾埿墀墁墂境墄墅墆墇墈墉墊墋墌墍墎墏墐墑墒墓墔墕墖増墘墙墚墛墜墝增墟墠墡墢墣墤墥墦墧墨墩墪墫墬墭墮墯墰墱墲墳墴墵墶墷墸墹墺墻墼墽墾墿壀壁壂壃壄壅壆壇壈壉壊壋壌壍壎壏壐壑壒壓壔壕壖壗壘壙壚壛壜壝壞壟壠壡壢壣壤壥壦壧壨壩壪士壬壭壮壯声壱売壳壴壵壶壷壸壹壺壻壼壽壾壿妀妁如妃妄妅妆妇妈妉妊妋妌妍妎妏妐妑妒妓妔妕妖妗妘妙妚妛妜妝妞妟妠妡妢妣妤妥妦妧妨妩妪妫妬妭妮妯妰妱妲妳妴妵妶妷妸妹妺妻妼妽妾妿姀姁姂姃姄姅姆姇姈姉姊始姌姍姎姏姐姑姒姓委姕姖姗姘姙姚姛姜姝姞姟姠姡姢姣姤姥姦姧姨姩姪姫姬姭姮姯姰姱姲姳姴姵姶姷姸姹姺姻姼姽姾姿媀媁媂媃媄媅媆媇媈媉媊媋媌媍媎媏媐媑媒媓媔媕媖媗媘媙媚媛媜媝媞媟媠媡媢媣媤媥媦媧媨媩媪媫媬媭媮媯媰媱媲媳媴媵媶媷媸媹媺媻媼媽媾媿嫀嫁嫂嫃嫄嫅嫆嫇嫈嫉嫊嫋嫌嫍嫎嫏嫐嫑嫒嫓嫔嫕嫖嫗嫘嫙嫚嫛嫜嫝嫞嫟嫠嫡嫢嫣嫤嫥嫦嫧嫨嫩嫪嫫嫬嫭嫮嫯嫰嫱嫲嫳嫴嫵嫶嫷嫸嫹嫺嫻嫼嫽嫾嫿宀宁宂它宄宅宆宇守安宊宋完宍宎宏宐宑宒宓宔宕宖宗官宙定宛宜宝实実宠审客宣室宥宦宧宨宩宪宫宬宭宮宯宰宱宲害宴宵家宷宸容宺宻宼宽宾宿寀寁寂寃寄寅密寇寈寉寊寋富寍寎寏寐寑寒寓寔寕寖寗寘寙寚寛寜寝寞察寠寡寢寣寤寥實寧寨審寪寫寬寭寮寯寰寱寲寳寴寵寶寷寸对寺寻导寽対寿岀岁岂岃岄岅岆岇岈岉岊岋岌岍岎岏岐岑岒岓岔岕岖岗岘岙岚岛岜岝岞岟岠岡岢岣岤岥岦岧岨岩岪岫岬岭岮岯岰岱岲岳岴岵岶岷岸岹岺岻岼岽岾岿峀峁峂峃峄峅峆峇峈峉峊峋峌峍峎峏峐峑峒峓峔峕峖峗峘峙峚峛峜峝峞峟峠峡峢峣峤峥峦峧峨峩峪峫峬峭峮峯峰峱峲峳峴峵島峷峸峹峺峻峼峽峾峿嶀嶁嶂嶃嶄嶅嶆嶇嶈嶉嶊嶋嶌嶍嶎嶏嶐嶑嶒嶓嶔嶕嶖嶗嶘嶙嶚嶛嶜嶝嶞嶟嶠嶡嶢嶣嶤嶥嶦嶧嶨嶩嶪嶫嶬嶭嶮嶯嶰嶱嶲嶳嶴嶵嶶嶷嶸嶹嶺嶻嶼嶽嶾嶿巀巁巂巃巄巅巆巇巈巉巊巋巌巍巎巏巐巑巒巓巔巕巖巗巘巙巚巛巜川州巟巠巡巢巣巤工左巧巨巩巪巫巬巭差巯巰己已巳巴巵巶巷巸巹巺巻巼巽巾巿庀庁庂広庄庅庆庇庈庉床庋庌庍庎序庐庑庒库应底庖店庘庙庚庛府庝庞废庠庡庢庣庤庥度座庨庩庪庫庬庭庮庯庰庱庲庳庴庵庶康庸庹庺庻庼庽庾庿廀廁廂廃廄廅廆廇廈廉廊廋廌廍廎廏廐廑廒廓廔廕廖廗廘廙廚廛廜廝廞廟廠廡廢廣廤廥廦廧廨廩廪廫廬廭廮廯廰廱廲廳廴廵延廷廸廹建廻廼廽廾廿往征徂徃径待徆徇很徉徊律後徍徎徏徐徑徒従徔徕徖得徘徙徚徛徜徝從徟徠御徢徣徤徥徦徧徨復循徫徬徭微徯徰徱徲徳徴徵徶德徸徹徺徻徼徽徾徿忀忁忂心忄必忆忇忈忉忊忋忌忍忎忏忐忑忒忓忔忕忖志忘忙忚忛応忝忞忟忠忡忢忣忤忥忦忧忨忩忪快忬忭忮忯忰忱忲忳忴念忶忷忸忹忺忻忼忽忾忿悀悁悂悃悄悅悆悇悈悉悊悋悌悍悎悏悐悑悒悓悔悕悖悗悘悙悚悛悜悝悞悟悠悡悢患悤悥悦悧您悩悪悫悬悭悮悯悰悱悲悳悴悵悶悷悸悹悺悻悼悽悾悿惀惁惂惃惄情惆惇惈惉惊惋惌惍惎惏惐惑惒惓惔惕惖惗惘惙惚惛惜惝惞惟惠惡惢惣惤惥惦惧惨惩惪惫惬惭惮惯惰惱惲想惴惵惶惷惸惹惺惻惼惽惾惿憀憁憂憃憄憅憆憇憈憉憊憋憌憍憎憏憐憑憒憓憔憕憖憗憘憙憚憛憜憝憞憟憠憡憢憣憤憥憦憧憨憩憪憫憬憭憮憯憰憱憲憳憴憵憶憷憸憹憺憻憼憽憾憿懀懁懂懃懄懅懆懇懈應懊懋懌懍懎懏懐懑懒懓懔懕懖懗懘懙懚懛懜懝懞懟懠懡懢懣懤懥懦懧懨懩懪懫懬懭懮懯懰懱懲懳懴懵懶懷懸懹懺懻懼懽懾懿技抁抂抃抄抅抆抇抈抉把抋抌抍抎抏抐抑抒抓抔投抖抗折抙抚抛抜抝択抟抠抡抢抣护报抦抧抨抩抪披抬抭抮抯抰抱抲抳抴抵抶抷抸抹抺抻押抽抾抿拀拁拂拃拄担拆拇拈拉拊拋拌拍拎拏拐拑拒拓拔拕拖拗拘拙拚招拜拝拞拟拠拡拢拣拤拥拦拧拨择拪拫括拭拮拯拰拱拲拳拴拵拶拷拸拹拺拻拼拽拾拿掀掁掂掃掄掅掆掇授掉掊掋掌掍掎掏掐掑排掓掔掕掖掗掘掙掚掛掜掝掞掟掠採探掣掤接掦控推掩措掫掬掭掮掯掰掱掲掳掴掵掶掷掸掹掺掻掼掽掾掿揀揁揂揃揄揅揆揇揈揉揊揋揌揍揎描提揑插揓揔揕揖揗揘揙揚換揜揝揞揟揠握揢揣揤揥揦揧揨揩揪揫揬揭揮揯揰揱揲揳援揵揶揷揸揹揺揻揼揽揾揿撀撁撂撃撄撅撆撇撈撉撊撋撌撍撎撏撐撑撒撓撔撕撖撗撘撙撚撛撜撝撞撟撠撡撢撣撤撥撦撧撨撩撪撫撬播撮撯撰撱撲撳撴撵撶撷撸撹撺撻撼撽撾撿擀擁擂擃擄擅擆擇擈擉擊擋擌操擎擏擐擑擒擓擔擕擖擗擘擙據擛擜擝擞擟擠擡擢擣擤擥擦擧擨擩擪擫擬擭擮擯擰擱擲擳擴擵擶擷擸擹擺擻擼擽擾擿斀斁斂斃斄斅斆文斈斉斊斋斌斍斎斏斐斑斒斓斔斕斖斗斘料斚斛斜斝斞斟斠斡斢斣斤斥斦斧斨斩斪斫斬断斮斯新斱斲斳斴斵斶斷斸方斺斻於施斾斿旀旁旂旃旄旅旆旇旈旉旊旋旌旍旎族旐旑旒旓旔旕旖旗旘旙旚旛旜旝旞旟无旡既旣旤日旦旧旨早旪旫旬旭旮旯旰旱旲旳旴旵时旷旸旹旺旻旼旽旾旿暀暁暂暃暄暅暆暇暈暉暊暋暌暍暎暏暐暑暒暓暔暕暖暗暘暙暚暛暜暝暞暟暠暡暢暣暤暥暦暧暨暩暪暫暬暭暮暯暰暱暲暳暴暵暶暷暸暹暺暻暼暽暾暿曀曁曂曃曄曅曆曇曈曉曊曋曌曍曎曏曐曑曒曓曔曕曖曗曘曙曚曛曜曝曞曟曠曡曢曣曤曥曦曧曨曩曪曫曬曭曮曯曰曱曲曳更曵曶曷書曹曺曻曼曽曾替枀极枂枃构枅枆枇枈枉枊枋枌枍枎枏析枑枒枓枔枕枖林枘枙枚枛果枝枞枟枠枡枢枣枤枥枦枧枨枩枪枫枬枭枮枯枰枱枲枳枴枵架枷枸枹枺枻枼枽枾枿柀柁柂柃柄柅柆柇柈柉柊柋柌柍柎柏某柑柒染柔柕柖柗柘柙柚柛柜柝柞柟柠柡柢柣柤查柦柧柨柩柪柫柬柭柮柯柰柱柲柳柴柵柶柷柸柹柺査柼柽柾柿梀梁梂梃梄梅梆梇梈梉梊梋梌梍梎梏梐梑梒梓梔梕梖梗梘梙梚梛梜條梞梟梠梡梢梣梤梥梦梧梨梩梪梫梬梭梮梯械梱梲梳梴梵梶梷梸梹梺梻梼梽梾梿检棁棂棃棄棅棆棇棈棉棊棋棌棍棎棏棐棑棒棓棔棕棖棗棘棙棚棛棜棝棞棟棠棡棢棣棤棥棦棧棨棩棪棫棬棭森棯棰棱棲棳棴棵棶棷棸棹棺棻棼棽棾棿榀榁概榃榄榅榆榇榈榉榊榋榌榍榎榏榐榑榒榓榔榕榖榗榘榙榚榛榜榝榞榟榠榡榢榣榤榥榦榧榨榩榪榫榬榭榮榯榰榱榲榳榴榵榶榷榸榹榺榻榼榽榾榿槀槁槂槃槄槅槆槇槈槉槊構槌槍槎槏槐槑槒槓槔槕槖槗様槙槚槛槜槝槞槟槠槡槢槣槤槥槦槧槨槩槪槫槬槭槮槯槰槱槲槳槴槵槶槷槸槹槺槻槼槽槾槿檀檁檂檃檄檅檆檇檈檉檊檋檌檍檎檏檐檑檒檓檔檕檖檗檘檙檚檛檜檝檞檟檠檡檢檣檤檥檦檧檨檩檪檫檬檭檮檯檰檱檲檳檴檵檶檷檸檹檺檻檼檽檾檿櫀櫁櫂櫃櫄櫅櫆櫇櫈櫉櫊櫋櫌櫍櫎櫏櫐櫑櫒櫓櫔櫕櫖櫗櫘櫙櫚櫛櫜櫝櫞櫟櫠櫡櫢櫣櫤櫥櫦櫧櫨櫩櫪櫫櫬櫭櫮櫯櫰櫱櫲櫳櫴櫵櫶櫷櫸櫹櫺櫻櫼櫽櫾櫿殀殁殂殃殄殅殆殇殈殉殊残殌殍殎殏殐殑殒殓殔殕殖殗殘殙殚殛殜殝殞殟殠殡殢殣殤殥殦殧殨殩殪殫殬殭殮殯殰殱殲殳殴段殶殷殸殹殺殻殼殽殾殿毀毁毂毃毄毅毆毇毈毉毊毋毌母毎每毐毑毒毓比毕毖毗毘毙毚毛毜毝毞毟毠毡毢毣毤毥毦毧毨毩毪毫毬毭毮毯毰毱毲毳毴毵毶毷毸毹毺毻毼毽毾毿沀沁沂沃沄沅沆沇沈沉沊沋沌沍沎沏沐沑沒沓沔沕沖沗沘沙沚沛沜沝沞沟沠没沢沣沤沥沦沧沨沩沪沫沬沭沮沯沰沱沲河沴沵沶沷沸油沺治沼沽沾沿泀況泂泃泄泅泆泇泈泉泊泋泌泍泎泏泐泑泒泓泔法泖泗泘泙泚泛泜泝泞泟泠泡波泣泤泥泦泧注泩泪泫泬泭泮泯泰泱泲泳泴泵泶泷泸泹泺泻泼泽泾泿涀涁涂涃涄涅涆涇消涉涊涋涌涍涎涏涐涑涒涓涔涕涖涗涘涙涚涛涜涝涞涟涠涡涢涣涤涥润涧涨涩涪涫涬涭涮涯涰涱液涳涴涵涶涷涸涹涺涻涼涽涾涿淀淁淂淃淄淅淆淇淈淉淊淋淌淍淎淏淐淑淒淓淔淕淖淗淘淙淚淛淜淝淞淟淠淡淢淣淤淥淦淧淨淩淪淫淬淭淮淯淰深淲淳淴淵淶混淸淹淺添淼淽淾淿満溁溂溃溄溅溆溇溈溉溊溋溌溍溎溏源溑溒溓溔溕準溗溘溙溚溛溜溝溞溟溠溡溢溣溤溥溦溧溨溩溪溫溬溭溮溯溰溱溲溳溴溵溶溷溸溹溺溻溼溽溾溿滀滁滂滃滄滅滆滇滈滉滊滋滌滍滎滏滐滑滒滓滔滕滖滗滘滙滚滛滜滝滞滟滠满滢滣滤滥滦滧滨滩滪滫滬滭滮滯滰滱滲滳滴滵滶滷滸滹滺滻滼滽滾滿澀澁澂澃澄澅澆澇澈澉澊澋澌澍澎澏澐澑澒澓澔澕澖澗澘澙澚澛澜澝澞澟澠澡澢澣澤澥澦澧澨澩澪澫澬澭澮澯澰澱澲澳澴澵澶澷澸澹澺澻澼澽澾澿激濁濂濃濄濅濆濇濈濉濊濋濌濍濎濏濐濑濒濓濔濕濖濗濘濙濚濛濜濝濞濟濠濡濢濣濤濥濦濧濨濩濪濫濬濭濮濯濰濱濲濳濴濵濶濷濸濹濺濻濼濽濾濿炀炁炂炃炄炅炆炇炈炉炊炋炌炍炎炏炐炑炒炓炔炕炖炗炘炙炚炛炜炝炞炟炠炡炢炣炤炥炦炧炨炩炪炫炬炭炮炯炰炱炲炳炴炵炶炷炸点為炻炼炽炾炿烀烁烂烃烄烅烆烇烈烉烊烋烌烍烎烏烐烑烒烓烔烕烖烗烘烙烚烛烜烝烞烟烠烡烢烣烤烥烦烧烨烩烪烫烬热烮烯烰烱烲烳烴烵烶烷烸烹烺烻烼烽烾烿熀熁熂熃熄熅熆熇熈熉熊熋熌熍熎熏熐熑熒熓熔熕熖熗熘熙熚熛熜熝熞熟熠熡熢熣熤熥熦熧熨熩熪熫熬熭熮熯熰熱熲熳熴熵熶熷熸熹熺熻熼熽熾熿燀燁燂燃燄燅燆燇燈燉燊燋燌燍燎燏燐燑燒燓燔燕燖燗燘燙燚燛燜燝燞營燠燡燢燣燤燥燦燧燨燩燪燫燬燭燮燯燰燱燲燳燴燵燶燷燸燹燺燻燼燽燾燿犀犁犂犃犄犅犆犇犈犉犊犋犌犍犎犏犐犑犒犓犔犕犖犗犘犙犚犛犜犝犞犟犠犡犢犣犤犥犦犧犨犩犪犫犬犭犮犯犰犱犲犳犴犵状犷犸犹犺犻犼犽犾犿狀狁狂狃狄狅狆狇狈狉狊狋狌狍狎狏狐狑狒狓狔狕狖狗狘狙狚狛狜狝狞狟狠狡狢狣狤狥狦狧狨狩狪狫独狭狮狯狰狱狲狳狴狵狶狷狸狹狺狻狼狽狾狿玀玁玂玃玄玅玆率玈玉玊王玌玍玎玏玐玑玒玓玔玕玖玗玘玙玚玛玜玝玞玟玠玡玢玣玤玥玦玧玨玩玪玫玬玭玮环现玱玲玳玴玵玶玷玸玹玺玻玼玽玾玿珀珁珂珃珄珅珆珇珈珉珊珋珌珍珎珏珐珑珒珓珔珕珖珗珘珙珚珛珜珝珞珟珠珡珢珣珤珥珦珧珨珩珪珫珬班珮珯珰珱珲珳珴珵珶珷珸珹珺珻珼珽現珿璀璁璂璃璄璅璆璇璈璉璊璋璌璍璎璏璐璑璒璓璔璕璖璗璘璙璚璛璜璝璞璟璠璡璢璣璤璥璦璧璨璩璪璫璬璭璮璯環璱璲璳璴璵璶璷璸璹璺璻璼璽璾璿瓀瓁瓂瓃瓄瓅瓆瓇瓈瓉瓊瓋瓌瓍瓎瓏瓐瓑瓒瓓瓔瓕瓖瓗瓘瓙瓚瓛瓜瓝瓞瓟瓠瓡瓢瓣瓤瓥瓦瓧瓨瓩瓪瓫瓬瓭瓮瓯瓰瓱瓲瓳瓴瓵瓶瓷瓸瓹瓺瓻瓼瓽瓾瓿疀疁疂疃疄疅疆疇疈疉疊疋疌疍疎疏疐疑疒疓疔疕疖疗疘疙疚疛疜疝疞疟疠疡疢疣疤疥疦疧疨疩疪疫疬疭疮疯疰疱疲疳疴疵疶疷疸疹疺疻疼疽疾疿痀痁痂痃痄病痆症痈痉痊痋痌痍痎痏痐痑痒痓痔痕痖痗痘痙痚痛痜痝痞痟痠痡痢痣痤痥痦痧痨痩痪痫痬痭痮痯痰痱痲痳痴痵痶痷痸痹痺痻痼痽痾痿皀皁皂皃的皅皆皇皈皉皊皋皌皍皎皏皐皑皒皓皔皕皖皗皘皙皚皛皜皝皞皟皠皡皢皣皤皥皦皧皨皩皪皫皬皭皮皯皰皱皲皳皴皵皶皷皸皹皺皻皼皽皾皿盀盁盂盃盄盅盆盇盈盉益盋盌盍盎盏盐监盒盓盔盕盖盗盘盙盚盛盜盝盞盟盠盡盢監盤盥盦盧盨盩盪盫盬盭目盯盰盱盲盳直盵盶盷相盹盺盻盼盽盾盿瞀瞁瞂瞃瞄瞅瞆瞇瞈瞉瞊瞋瞌瞍瞎瞏瞐瞑瞒瞓瞔瞕瞖瞗瞘瞙瞚瞛瞜瞝瞞瞟瞠瞡瞢瞣瞤瞥瞦瞧瞨瞩瞪瞫瞬瞭瞮瞯瞰瞱瞲瞳瞴瞵瞶瞷瞸瞹瞺瞻瞼瞽瞾瞿矀矁矂矃矄矅矆矇矈矉矊矋矌矍矎矏矐矑矒矓矔矕矖矗矘矙矚矛矜矝矞矟矠矡矢矣矤知矦矧矨矩矪矫矬短矮矯矰矱矲石矴矵矶矷矸矹矺矻矼矽矾矿碀碁碂碃碄碅碆碇碈碉碊碋碌碍碎碏碐碑碒碓碔碕碖碗碘碙碚碛碜碝碞碟碠碡碢碣碤碥碦碧碨碩碪碫碬碭碮碯碰碱碲碳碴碵碶碷碸碹確碻碼碽碾碿磀磁磂磃磄磅磆磇磈磉磊磋磌磍磎磏磐磑磒磓磔磕磖磗磘磙磚磛磜磝磞磟磠磡磢磣磤磥磦磧磨磩磪磫磬磭磮磯磰磱磲磳磴磵磶磷磸磹磺磻磼磽磾磿禀禁禂禃禄禅禆禇禈禉禊禋禌禍禎福禐禑禒禓禔禕禖禗禘禙禚禛禜禝禞禟禠禡禢禣禤禥禦禧禨禩禪禫禬禭禮禯禰禱禲禳禴禵禶禷禸禹禺离禼禽禾禿秀私秂秃秄秅秆秇秈秉秊秋秌种秎秏秐科秒秓秔秕秖秗秘秙秚秛秜秝秞租秠秡秢秣秤秥秦秧秨秩秪秫秬秭秮积称秱秲秳秴秵秶秷秸秹秺移秼秽秾秿窀突窂窃窄窅窆窇窈窉窊窋窌窍窎窏窐窑窒窓窔窕窖窗窘窙窚窛窜窝窞窟窠窡窢窣窤窥窦窧窨窩窪窫窬窭窮窯窰窱窲窳窴窵窶窷窸窹窺窻窼窽窾窿竀竁竂竃竄竅竆竇竈竉竊立竌竍竎竏竐竑竒竓竔竕竖竗竘站竚竛竜竝竞竟章竡竢竣竤童竦竧竨竩竪竫竬竭竮端竰竱竲竳竴竵競竷竸竹竺竻竼竽竾竿简箁箂箃箄箅箆箇箈箉箊箋箌箍箎箏箐箑箒箓箔箕箖算箘箙箚箛箜箝箞箟箠管箢箣箤箥箦箧箨箩箪箫箬箭箮箯箰箱箲箳箴箵箶箷箸箹箺箻箼箽箾箿節篁篂篃範篅篆篇篈築篊篋篌篍篎篏篐篑篒篓篔篕篖篗篘篙篚篛篜篝篞篟篠篡篢篣篤篥篦篧篨篩篪篫篬篭篮篯篰篱篲篳篴篵篶篷篸篹篺篻篼篽篾篿粀粁粂粃粄粅粆粇粈粉粊粋粌粍粎粏粐粑粒粓粔粕粖粗粘粙粚粛粜粝粞粟粠粡粢粣粤粥粦粧粨粩粪粫粬粭粮粯粰粱粲粳粴粵粶粷粸粹粺粻粼粽精粿糀糁糂糃糄糅糆糇糈糉糊糋糌糍糎糏糐糑糒糓糔糕糖糗糘糙糚糛糜糝糞糟糠糡糢糣糤糥糦糧糨糩糪糫糬糭糮糯糰糱糲糳糴糵糶糷糸糹糺系糼糽糾糿綀綁綂綃綄綅綆綇綈綉綊綋綌綍綎綏綐綑綒經綔綕綖綗綘継続綛綜綝綞綟綠綡綢綣綤綥綦綧綨綩綪綫綬維綮綯綰綱網綳綴綵綶綷綸綹綺綻綼綽綾綿緀緁緂緃緄緅緆緇緈緉緊緋緌緍緎総緐緑緒緓緔緕緖緗緘緙線緛緜緝緞緟締緡緢緣緤緥緦緧編緩緪緫緬緭緮緯緰緱緲緳練緵緶緷緸緹緺緻緼緽緾緿纀纁纂纃纄纅纆纇纈纉纊纋續纍纎纏纐纑纒纓纔纕纖纗纘纙纚纛纜纝纞纟纠纡红纣纤纥约级纨纩纪纫纬纭纮纯纰纱纲纳纴纵纶纷纸纹纺纻纼纽纾线绀绁绂练组绅细织终绉绊绋绌绍绎经绐绑绒结绔绕绖绗绘给绚绛络绝绞统绠绡绢绣绤绥绦继绨绩绪绫绬续绮绯绰绱绲绳维绵绶绷绸绹绺绻综绽绾绿羀羁羂羃羄羅羆羇羈羉羊羋羌羍美羏羐羑羒羓羔羕羖羗羘羙羚羛羜羝羞羟羠羡羢羣群羥羦羧羨義羪羫羬羭羮羯羰羱羲羳羴羵羶羷羸羹羺羻羼羽羾羿翀翁翂翃翄翅翆翇翈翉翊翋翌翍翎翏翐翑習翓翔翕翖翗翘翙翚翛翜翝翞翟翠翡翢翣翤翥翦翧翨翩翪翫翬翭翮翯翰翱翲翳翴翵翶翷翸翹翺翻翼翽翾翿肀肁肂肃肄肅肆肇肈肉肊肋肌肍肎肏肐肑肒肓肔肕肖肗肘肙肚肛肜肝肞肟肠股肢肣肤肥肦肧肨肩肪肫肬肭肮肯肰肱育肳肴肵肶肷肸肹肺肻肼肽肾肿胀胁胂胃胄胅胆胇胈胉胊胋背胍胎胏胐胑胒胓胔胕胖胗胘胙胚胛胜胝胞胟胠胡胢胣胤胥胦胧胨胩胪胫胬胭胮胯胰胱胲胳胴胵胶胷胸胹胺胻胼能胾胿膀膁膂膃膄膅膆膇膈膉膊膋膌膍膎膏膐膑膒膓膔膕膖膗膘膙膚膛膜膝膞膟膠膡膢膣膤膥膦膧膨膩膪膫膬膭膮膯膰膱膲膳膴膵膶膷膸膹膺膻膼膽膾膿臀臁臂臃臄臅臆臇臈臉臊臋臌臍臎臏臐臑臒臓臔臕臖臗臘臙臚臛臜臝臞臟臠臡臢臣臤臥臦臧臨臩自臫臬臭臮臯臰臱臲至致臵臶臷臸臹臺臻臼臽臾臿芀芁节芃芄芅芆芇芈芉芊芋芌芍芎芏芐芑芒芓芔芕芖芗芘芙芚芛芜芝芞芟芠芡芢芣芤芥芦芧芨芩芪芫芬芭芮芯芰花芲芳芴芵芶芷芸芹芺芻芼芽芾芿苀苁苂苃苄苅苆苇苈苉苊苋苌苍苎苏苐苑苒苓苔苕苖苗苘苙苚苛苜苝苞苟苠苡苢苣苤若苦苧苨苩苪苫苬苭苮苯苰英苲苳苴苵苶苷苸苹苺苻苼苽苾苿莀莁莂莃莄莅莆莇莈莉莊莋莌莍莎莏莐莑莒莓莔莕莖莗莘莙莚莛莜莝莞莟莠莡莢莣莤莥莦莧莨莩莪莫莬莭莮莯莰莱莲莳莴莵莶获莸莹莺莻莼莽莾莿菀菁菂菃菄菅菆菇菈菉菊菋菌菍菎菏菐菑菒菓菔菕菖菗菘菙菚菛菜菝菞菟菠菡菢菣菤菥菦菧菨菩菪菫菬菭菮華菰菱菲菳菴菵菶菷菸菹菺菻菼菽菾菿蒀蒁蒂蒃蒄蒅蒆蒇蒈蒉蒊蒋蒌蒍蒎蒏蒐蒑蒒蒓蒔蒕蒖蒗蒘蒙蒚蒛蒜蒝蒞蒟蒠蒡蒢蒣蒤蒥蒦蒧蒨蒩蒪蒫蒬蒭蒮蒯蒰蒱蒲蒳蒴蒵蒶蒷蒸蒹蒺蒻蒼蒽蒾蒿蓀蓁蓂蓃蓄蓅蓆蓇蓈蓉蓊蓋蓌蓍蓎蓏蓐蓑蓒蓓蓔蓕蓖蓗蓘蓙蓚蓛蓜蓝蓞蓟蓠蓡蓢蓣蓤蓥蓦蓧蓨蓩蓪蓫蓬蓭蓮蓯蓰蓱蓲蓳蓴蓵蓶蓷蓸蓹蓺蓻蓼蓽蓾蓿薀薁薂薃薄薅薆薇薈薉薊薋薌薍薎薏薐薑薒薓薔薕薖薗薘薙薚薛薜薝薞薟薠薡薢薣薤薥薦薧薨薩薪薫薬薭薮薯薰薱薲薳薴薵薶薷薸薹薺薻薼薽薾薿藀藁藂藃藄藅藆藇藈藉藊藋藌藍藎藏藐藑藒藓藔藕藖藗藘藙藚藛藜藝藞藟藠藡藢藣藤藥藦藧藨藩藪藫藬藭藮藯藰藱藲藳藴藵藶藷藸藹藺藻藼藽藾藿蚀蚁蚂蚃蚄蚅蚆蚇蚈蚉蚊蚋蚌蚍蚎蚏蚐蚑蚒蚓蚔蚕蚖蚗蚘蚙蚚蚛蚜蚝蚞蚟蚠蚡蚢蚣蚤蚥蚦蚧蚨蚩蚪蚫蚬蚭蚮蚯蚰蚱蚲蚳蚴蚵蚶蚷蚸蚹蚺蚻蚼蚽蚾蚿蛀蛁蛂蛃蛄蛅蛆蛇蛈蛉蛊蛋蛌蛍蛎蛏蛐蛑蛒蛓蛔蛕蛖蛗蛘蛙蛚蛛蛜蛝蛞蛟蛠蛡蛢蛣蛤蛥蛦蛧蛨蛩蛪蛫蛬蛭蛮蛯蛰蛱蛲蛳蛴蛵蛶蛷蛸蛹蛺蛻蛼蛽蛾蛿螀螁螂螃螄螅螆螇螈螉螊螋螌融螎螏螐螑螒螓螔螕螖螗螘螙螚螛螜螝螞螟螠螡螢螣螤螥螦螧螨螩螪螫螬螭螮螯螰螱螲螳螴螵螶螷螸螹螺螻螼螽螾螿蟀蟁蟂蟃蟄蟅蟆蟇蟈蟉蟊蟋蟌蟍蟎蟏蟐蟑蟒蟓蟔蟕蟖蟗蟘蟙蟚蟛蟜蟝蟞蟟蟠蟡蟢蟣蟤蟥蟦蟧蟨蟩蟪蟫蟬蟭蟮蟯蟰蟱蟲蟳蟴蟵蟶蟷蟸蟹蟺蟻蟼蟽蟾蟿袀袁袂袃袄袅袆袇袈袉袊袋袌袍袎袏袐袑袒袓袔袕袖袗袘袙袚袛袜袝袞袟袠袡袢袣袤袥袦袧袨袩袪被袬袭袮袯袰袱袲袳袴袵袶袷袸袹袺袻袼袽袾袿裀裁裂裃裄装裆裇裈裉裊裋裌裍裎裏裐裑裒裓裔裕裖裗裘裙裚裛補裝裞裟裠裡裢裣裤裥裦裧裨裩裪裫裬裭裮裯裰裱裲裳裴裵裶裷裸裹裺裻裼製裾裿覀要覂覃覄覅覆覇覈覉覊見覌覍覎規覐覑覒覓覔覕視覗覘覙覚覛覜覝覞覟覠覡覢覣覤覥覦覧覨覩親覫覬覭覮覯覰覱覲観覴覵覶覷覸覹覺覻覼覽覾覿觀见观觃规觅视觇览觉觊觋觌觍觎觏觐觑角觓觔觕觖觗觘觙觚觛觜觝觞觟觠觡觢解觤觥触觧觨觩觪觫觬觭觮觯觰觱觲觳觴觵觶觷觸觹觺觻觼觽觾觿誀誁誂誃誄誅誆誇誈誉誊誋誌認誎誏誐誑誒誓誔誕誖誗誘誙誚誛誜誝語誟誠誡誢誣誤誥誦誧誨誩說誫説読誮誯誰誱課誳誴誵誶誷誸誹誺誻誼誽誾調諀諁諂諃諄諅諆談諈諉諊請諌諍諎諏諐諑諒諓諔諕論諗諘諙諚諛諜諝諞諟諠諡諢諣諤諥諦諧諨諩諪諫諬諭諮諯諰諱諲諳諴諵諶諷諸諹諺諻諼諽諾諿讀讁讂讃讄讅讆讇讈讉變讋讌讍讎讏讐讑讒讓讔讕讖讗讘讙讚讛讜讝讞讟讠计订讣认讥讦讧讨让讪讫讬训议讯记讱讲讳讴讵讶讷许讹论讻讼讽设访诀证诂诃评诅识诇诈诉诊诋诌词诎诏诐译诒诓诔试诖诗诘诙诚诛诜话诞诟诠诡询诣诤该详诧诨诩诪诫诬语诮误诰诱诲诳说诵诶请诸诹诺读诼诽课诿貀貁貂貃貄貅貆貇貈貉貊貋貌貍貎貏貐貑貒貓貔貕貖貗貘貙貚貛貜貝貞貟負財貢貣貤貥貦貧貨販貪貫責貭貮貯貰貱貲貳貴貵貶買貸貹貺費貼貽貾貿賀賁賂賃賄賅賆資賈賉賊賋賌賍賎賏賐賑賒賓賔賕賖賗賘賙賚賛賜賝賞賟賠賡賢賣賤賥賦賧賨賩質賫賬賭賮賯賰賱賲賳賴賵賶賷賸賹賺賻購賽賾賿趀趁趂趃趄超趆趇趈趉越趋趌趍趎趏趐趑趒趓趔趕趖趗趘趙趚趛趜趝趞趟趠趡趢趣趤趥趦趧趨趩趪趫趬趭趮趯趰趱趲足趴趵趶趷趸趹趺趻趼趽趾趿跀跁跂跃跄跅跆跇跈跉跊跋跌跍跎跏跐跑跒跓跔跕跖跗跘跙跚跛跜距跞跟跠跡跢跣跤跥跦跧跨跩跪跫跬跭跮路跰跱跲跳跴践跶跷跸跹跺跻跼跽跾跿躀躁躂躃躄躅躆躇躈躉躊躋躌躍躎躏躐躑躒躓躔躕躖躗躘躙躚躛躜躝躞躟躠躡躢躣躤躥躦躧躨躩躪身躬躭躮躯躰躱躲躳躴躵躶躷躸躹躺躻躼躽躾躿軀軁軂軃軄軅軆軇軈軉車軋軌軍軎軏軐軑軒軓軔軕軖軗軘軙軚軛軜軝軞軟軠軡転軣軤軥軦軧軨軩軪軫軬軭軮軯軰軱軲軳軴軵軶軷軸軹軺軻軼軽軾軿辀辁辂较辄辅辆辇辈辉辊辋辌辍辎辏辐辑辒输辔辕辖辗辘辙辚辛辜辝辞辟辠辡辢辣辤辥辦辧辨辩辪辫辬辭辮辯辰辱農辳辴辵辶辷辸边辺辻込辽达辿迀迁迂迃迄迅迆过迈迉迊迋迌迍迎迏运近迒迓返迕迖迗还这迚进远违连迟迠迡迢迣迤迥迦迧迨迩迪迫迬迭迮迯述迱迲迳迴迵迶迷迸迹迺迻迼追迾迿邀邁邂邃還邅邆邇邈邉邊邋邌邍邎邏邐邑邒邓邔邕邖邗邘邙邚邛邜邝邞邟邠邡邢那邤邥邦邧邨邩邪邫邬邭邮邯邰邱邲邳邴邵邶邷邸邹邺邻邼邽邾邿郀郁郂郃郄郅郆郇郈郉郊郋郌郍郎郏郐郑郒郓郔郕郖郗郘郙郚郛郜郝郞郟郠郡郢郣郤郥郦郧部郩郪郫郬郭郮郯郰郱郲郳郴郵郶郷郸郹郺郻郼都郾郿醀醁醂醃醄醅醆醇醈醉醊醋醌醍醎醏醐醑醒醓醔醕醖醗醘醙醚醛醜醝醞醟醠醡醢醣醤醥醦醧醨醩醪醫醬醭醮醯醰醱醲醳醴醵醶醷醸醹醺醻醼醽醾醿釀釁釂釃釄釅釆采釈釉释釋里重野量釐金釒釓釔釕釖釗釘釙釚釛釜針釞釟釠釡釢釣釤釥釦釧釨釩釪釫釬釭釮釯釰釱釲釳釴釵釶釷釸釹釺釻釼釽釾釿銀銁銂銃銄銅銆銇銈銉銊銋銌銍銎銏銐銑銒銓銔銕銖銗銘銙銚銛銜銝銞銟銠銡銢銣銤銥銦銧銨銩銪銫銬銭銮銯銰銱銲銳銴銵銶銷銸銹銺銻銼銽銾銿鋀鋁鋂鋃鋄鋅鋆鋇鋈鋉鋊鋋鋌鋍鋎鋏鋐鋑鋒鋓鋔鋕鋖鋗鋘鋙鋚鋛鋜鋝鋞鋟鋠鋡鋢鋣鋤鋥鋦鋧鋨鋩鋪鋫鋬鋭鋮鋯鋰鋱鋲鋳鋴鋵鋶鋷鋸鋹鋺鋻鋼鋽鋾鋿鎀鎁鎂鎃鎄鎅鎆鎇鎈鎉鎊鎋鎌鎍鎎鎏鎐鎑鎒鎓鎔鎕鎖鎗鎘鎙鎚鎛鎜鎝鎞鎟鎠鎡鎢鎣鎤鎥鎦鎧鎨鎩鎪鎫鎬鎭鎮鎯鎰鎱鎲鎳鎴鎵鎶鎷鎸鎹鎺鎻鎼鎽鎾鎿鏀鏁鏂鏃鏄鏅鏆鏇鏈鏉鏊鏋鏌鏍鏎鏏鏐鏑鏒鏓鏔鏕鏖鏗鏘鏙鏚鏛鏜鏝鏞鏟鏠鏡鏢鏣鏤鏥鏦鏧鏨鏩鏪鏫鏬鏭鏮鏯鏰鏱鏲鏳鏴鏵鏶鏷鏸鏹鏺鏻鏼鏽鏾鏿钀钁钂钃钄钅钆钇针钉钊钋钌钍钎钏钐钑钒钓钔钕钖钗钘钙钚钛钜钝钞钟钠钡钢钣钤钥钦钧钨钩钪钫钬钭钮钯钰钱钲钳钴钵钶钷钸钹钺钻钼钽钾钿铀铁铂铃铄铅铆铇铈铉铊铋铌铍铎铏铐铑铒铓铔铕铖铗铘铙铚铛铜铝铞铟铠铡铢铣铤铥铦铧铨铩铪铫铬铭铮铯铰铱铲铳铴铵银铷铸铹铺铻铼铽链铿門閁閂閃閄閅閆閇閈閉閊開閌閍閎閏閐閑閒間閔閕閖閗閘閙閚閛閜閝閞閟閠閡関閣閤閥閦閧閨閩閪閫閬閭閮閯閰閱閲閳閴閵閶閷閸閹閺閻閼閽閾閿闀闁闂闃闄闅闆闇闈闉闊闋闌闍闎闏闐闑闒闓闔闕闖闗闘闙闚闛關闝闞闟闠闡闢闣闤闥闦闧门闩闪闫闬闭问闯闰闱闲闳间闵闶闷闸闹闺闻闼闽闾闿隀隁隂隃隄隅隆隇隈隉隊隋隌隍階随隐隑隒隓隔隕隖隗隘隙隚際障隝隞隟隠隡隢隣隤隥隦隧隨隩險隫隬隭隮隯隰隱隲隳隴隵隶隷隸隹隺隻隼隽难隿雀雁雂雃雄雅集雇雈雉雊雋雌雍雎雏雐雑雒雓雔雕雖雗雘雙雚雛雜雝雞雟雠雡離難雤雥雦雧雨雩雪雫雬雭雮雯雰雱雲雳雴雵零雷雸雹雺電雼雽雾雿鞀鞁鞂鞃鞄鞅鞆鞇鞈鞉鞊鞋鞌鞍鞎鞏鞐鞑鞒鞓鞔鞕鞖鞗鞘鞙鞚鞛鞜鞝鞞鞟鞠鞡鞢鞣鞤鞥鞦鞧鞨鞩鞪鞫鞬鞭鞮鞯鞰鞱鞲鞳鞴鞵鞶鞷鞸鞹鞺鞻鞼鞽鞾鞿韀韁韂韃韄韅韆韇韈韉韊韋韌韍韎韏韐韑韒韓韔韕韖韗韘韙韚韛韜韝韞韟韠韡韢韣韤韥韦韧韨韩韪韫韬韭韮韯韰韱韲音韴韵韶韷韸韹韺韻韼韽韾響颀颁颂颃预颅领颇颈颉颊颋颌颍颎颏颐频颒颓颔颕颖颗题颙颚颛颜额颞颟颠颡颢颣颤颥颦颧風颩颪颫颬颭颮颯颰颱颲颳颴颵颶颷颸颹颺颻颼颽颾颿飀飁飂飃飄飅飆飇飈飉飊飋飌飍风飏飐飑飒飓飔飕飖飗飘飙飚飛飜飝飞食飠飡飢飣飤飥飦飧飨飩飪飫飬飭飮飯飰飱飲飳飴飵飶飷飸飹飺飻飼飽飾飿馀馁馂馃馄馅馆馇馈馉馊馋馌馍馎馏馐馑馒馓馔馕首馗馘香馚馛馜馝馞馟馠馡馢馣馤馥馦馧馨馩馪馫馬馭馮馯馰馱馲馳馴馵馶馷馸馹馺馻馼馽馾馿駀駁駂駃駄駅駆駇駈駉駊駋駌駍駎駏駐駑駒駓駔駕駖駗駘駙駚駛駜駝駞駟駠駡駢駣駤駥駦駧駨駩駪駫駬駭駮駯駰駱駲駳駴駵駶駷駸駹駺駻駼駽駾駿骀骁骂骃骄骅骆骇骈骉骊骋验骍骎骏骐骑骒骓骔骕骖骗骘骙骚骛骜骝骞骟骠骡骢骣骤骥骦骧骨骩骪骫骬骭骮骯骰骱骲骳骴骵骶骷骸骹骺骻骼骽骾骿髀髁髂髃髄髅髆髇髈髉髊髋髌髍髎髏髐髑髒髓體髕髖髗高髙髚髛髜髝髞髟髠髡髢髣髤髥髦髧髨髩髪髫髬髭髮髯髰髱髲髳髴髵髶髷髸髹髺髻髼髽髾髿鮀鮁鮂鮃鮄鮅鮆鮇鮈鮉鮊鮋鮌鮍鮎鮏鮐鮑鮒鮓鮔鮕鮖鮗鮘鮙鮚鮛鮜鮝鮞鮟鮠鮡鮢鮣鮤鮥鮦鮧鮨鮩鮪鮫鮬鮭鮮鮯鮰鮱鮲鮳鮴鮵鮶鮷鮸鮹鮺鮻鮼鮽鮾鮿鯀鯁鯂鯃鯄鯅鯆鯇鯈鯉鯊鯋鯌鯍鯎鯏鯐鯑鯒鯓鯔鯕鯖鯗鯘鯙鯚鯛鯜鯝鯞鯟鯠鯡鯢鯣鯤鯥鯦鯧鯨鯩鯪鯫鯬鯭鯮鯯鯰鯱鯲鯳鯴鯵鯶鯷鯸鯹鯺鯻鯼鯽鯾鯿鲀鲁鲂鲃鲄鲅鲆鲇鲈鲉鲊鲋鲌鲍鲎鲏鲐鲑鲒鲓鲔鲕鲖鲗鲘鲙鲚鲛鲜鲝鲞鲟鲠鲡鲢鲣鲤鲥鲦鲧鲨鲩鲪鲫鲬鲭鲮鲯鲰鲱鲲鲳鲴鲵鲶鲷鲸鲹鲺鲻鲼鲽鲾鲿鳀鳁鳂鳃鳄鳅鳆鳇鳈鳉鳊鳋鳌鳍鳎鳏鳐鳑鳒鳓鳔鳕鳖鳗鳘鳙鳚鳛鳜鳝鳞鳟鳠鳡鳢鳣鳤鳥鳦鳧鳨鳩鳪鳫鳬鳭鳮鳯鳰鳱鳲鳳鳴鳵鳶鳷鳸鳹鳺鳻鳼鳽鳾鳿鶀鶁鶂鶃鶄鶅鶆鶇鶈鶉鶊鶋鶌鶍鶎鶏鶐鶑鶒鶓鶔鶕鶖鶗鶘鶙鶚鶛鶜鶝鶞鶟鶠鶡鶢鶣鶤鶥鶦鶧鶨鶩鶪鶫鶬鶭鶮鶯鶰鶱鶲鶳鶴鶵鶶鶷鶸鶹鶺鶻鶼鶽鶾鶿鷀鷁鷂鷃鷄鷅鷆鷇鷈鷉鷊鷋鷌鷍鷎鷏鷐鷑鷒鷓鷔鷕鷖鷗鷘鷙鷚鷛鷜鷝鷞鷟鷠鷡鷢鷣鷤鷥鷦鷧鷨鷩鷪鷫鷬鷭鷮鷯鷰鷱鷲鷳鷴鷵鷶鷷鷸鷹鷺鷻鷼鷽鷾鷿麀麁麂麃麄麅麆麇麈麉麊麋麌麍麎麏麐麑麒麓麔麕麖麗麘麙麚麛麜麝麞麟麠麡麢麣麤麥麦麧麨麩麪麫麬麭麮麯麰麱麲麳麴麵麶麷麸麹麺麻麼麽麾麿黀黁黂黃黄黅黆黇黈黉黊黋黌黍黎黏黐黑黒黓黔黕黖黗默黙黚黛黜黝點黟黠黡黢黣黤黥黦黧黨黩黪黫黬黭黮黯黰黱黲黳黴黵黶黷黸黹黺黻黼黽黾黿龀龁龂龃龄龅龆龇龈龉龊龋龌龍龎龏龐龑龒龓龔龕龖龗龘龙龚龛龜龝龞龟龠龡龢龣龤龥龦龧龨龩龪龫龬龭龮龯龰龱龲龳龴龵龶龷龸龹龺龻龼龽龾龿鿀鿁鿂鿃鿄鿅鿆鿇鿈鿉鿊鿋鿌鿍鿎鿏鿐鿑鿒鿓鿔鿕鿖鿗鿘鿙鿚鿛鿜鿝鿞鿟鿠鿡鿢鿣鿤鿥鿦鿧鿨鿩鿪鿫鿬鿭鿮鿯鿰鿱鿲鿳鿴鿵鿶鿷鿸鿹鿺鿻鿼鿽鿾鿿ꂀꂁꂂꂃꂄꂅꂆꂇꂈꂉꂊꂋꂌꂍꂎꂏꂐꂑꂒꂓꂔꂕꂖꂗꂘꂙꂚꂛꂜꂝꂞꂟꂠꂡꂢꂣꂤꂥꂦꂧꂨꂩꂪꂫꂬꂭꂮꂯꂰꂱꂲꂳꂴꂵꂶꂷꂸꂹꂺꂻꂼꂽꂾꂿꃀꃁꃂꃃꃄꃅꃆꃇꃈꃉꃊꃋꃌꃍꃎꃏꃐꃑꃒꃓꃔꃕꃖꃗꃘꃙꃚꃛꃜꃝꃞꃟꃠꃡꃢꃣꃤꃥꃦꃧꃨꃩꃪꃫꃬꃭꃮꃯꃰꃱꃲꃳꃴꃵꃶꃷꃸꃹꃺꃻꃼꃽꃾꃿꆀꆁꆂꆃꆄꆅꆆꆇꆈꆉꆊꆋꆌꆍꆎꆏꆐꆑꆒꆓꆔꆕꆖꆗꆘꆙꆚꆛꆜꆝꆞꆟꆠꆡꆢꆣꆤꆥꆦꆧꆨꆩꆪꆫꆬꆭꆮꆯꆰꆱꆲꆳꆴꆵꆶꆷꆸꆹꆺꆻꆼꆽꆾꆿꇀꇁꇂꇃꇄꇅꇆꇇꇈꇉꇊꇋꇌꇍꇎꇏꇐꇑꇒꇓꇔꇕꇖꇗꇘꇙꇚꇛꇜꇝꇞꇟꇠꇡꇢꇣꇤꇥꇦꇧꇨꇩꇪꇫꇬꇭꇮꇯꇰꇱꇲꇳꇴꇵꇶꇷꇸꇹꇺꇻꇼꇽꇾꇿꊀꊁꊂꊃꊄꊅꊆꊇꊈꊉꊊꊋꊌꊍꊎꊏꊐꊑꊒꊓꊔꊕꊖꊗꊘꊙꊚꊛꊜꊝꊞꊟꊠꊡꊢꊣꊤꊥꊦꊧꊨꊩꊪꊫꊬꊭꊮꊯꊰꊱꊲꊳꊴꊵꊶꊷꊸꊹꊺꊻꊼꊽꊾꊿꋀꋁꋂꋃꋄꋅꋆꋇꋈꋉꋊꋋꋌꋍꋎꋏꋐꋑꋒꋓꋔꋕꋖꋗꋘꋙꋚꋛꋜꋝꋞꋟꋠꋡꋢꋣꋤꋥꋦꋧꋨꋩꋪꋫꋬꋭꋮꋯꋰꋱꋲꋳꋴꋵꋶꋷꋸꋹꋺꋻꋼꋽꋾꋿꎀꎁꎂꎃꎄꎅꎆꎇꎈꎉꎊꎋꎌꎍꎎꎏꎐꎑꎒꎓꎔꎕꎖꎗꎘꎙꎚꎛꎜꎝꎞꎟꎠꎡꎢꎣꎤꎥꎦꎧꎨꎩꎪꎫꎬꎭꎮꎯꎰꎱꎲꎳꎴꎵꎶꎷꎸꎹꎺꎻꎼꎽꎾꎿꏀꏁꏂꏃꏄꏅꏆꏇꏈꏉꏊꏋꏌꏍꏎꏏꏐꏑꏒꏓꏔꏕꏖꏗꏘꏙꏚꏛꏜꏝꏞꏟꏠꏡꏢꏣꏤꏥꏦꏧꏨꏩꏪꏫꏬꏭꏮꏯꏰꏱꏲꏳꏴꏵꏶꏷꏸꏹꏺꏻꏼꏽꏾꏿꒀꒁꒂꒃꒄꒅꒆꒇꒈꒉꒊꒋꒌ꒍꒎꒏꒐꒑꒒꒓꒔꒕꒖꒗꒘꒙꒚꒛꒜꒝꒞꒟꒠꒡꒢꒣꒤꒥꒦꒧꒨꒩꒪꒫꒬꒭꒮꒯꒰꒱꒲꒳꒴꒵꒶꒷꒸꒹꒺꒻꒼꒽꒾꒿꓀꓁꓂꓃꓄꓅꓆꓇꓈꓉꓊꓋꓌꓍꓎꓏ꓐꓑꓒꓓꓔꓕꓖꓗꓘꓙꓚꓛꓜꓝꓞꓟꓠꓡꓢꓣꓤꓥꓦꓧꓨꓩꓪꓫꓬꓭꓮꓯꓰꓱꓲꓳꓴꓵꓶꓷꓸꓹꓺꓻꓼꓽ꓾꓿ꖀꖁꖂꖃꖄꖅꖆꖇꖈꖉꖊꖋꖌꖍꖎꖏꖐꖑꖒꖓꖔꖕꖖꖗꖘꖙꖚꖛꖜꖝꖞꖟꖠꖡꖢꖣꖤꖥꖦꖧꖨꖩꖪꖫꖬꖭꖮꖯꖰꖱꖲꖳꖴꖵꖶꖷꖸꖹꖺꖻꖼꖽꖾꖿꗀꗁꗂꗃꗄꗅꗆꗇꗈꗉꗊꗋꗌꗍꗎꗏꗐꗑꗒꗓꗔꗕꗖꗗꗘꗙꗚꗛꗜꗝꗞꗟꗠꗡꗢꗣꗤꗥꗦꗧꗨꗩꗪꗫꗬꗭꗮꗯꗰꗱꗲꗳꗴꗵꗶꗷꗸꗹꗺꗻꗼꗽꗾꗿꚀꚁꚂꚃꚄꚅꚆꚇꚈꚉꚊꚋꚌꚍꚎꚏꚐꚑꚒꚓꚔꚕꚖꚗꚘꚙꚚꚛꚜꚝꚞꚟꚠꚡꚢꚣꚤꚥꚦꚧꚨꚩꚪꚫꚬꚭꚮꚯꚰꚱꚲꚳꚴꚵꚶꚷꚸꚹꚺꚻꚼꚽꚾꚿꛀꛁꛂꛃꛄꛅꛆꛇꛈꛉꛊꛋꛌꛍꛎꛏꛐꛑꛒꛓꛔꛕꛖꛗꛘꛙꛚꛛꛜꛝꛞꛟꛠꛡꛢꛣꛤꛥꛦꛧꛨꛩꛪꛫꛬꛭꛮꛯ꛰꛱꛲꛳꛴꛵꛶꛷꛸꛹꛺꛻꛼꛽꛾꛿ꞀꞁꞂꞃꞄꞅꞆꞇꞈ꞉꞊ꞋꞌꞍꞎꞏꞐꞑꞒꞓꞔꞕꞖꞗꞘꞙꞚꞛꞜꞝꞞꞟꞠꞡꞢꞣꞤꞥꞦꞧꞨꞩꞪꞫꞬꞭꞮꞯꞰꞱꞲꞳꞴꞵꞶꞷꞸꞹꞺꞻꞼꞽꞾꞿꟀꟁꟂꟃꟄꟅꟆꟇꟈꟉꟊꟋꟌꟍ꟎꟏Ꟑꟑ꟒ꟓ꟔ꟕꟖꟗꟘꟙꟚꟛꟜ꟝꟞꟟꟠꟡꟢꟣꟤꟥꟦꟧꟨꟩꟪꟫꟬꟭꟮꟯꟰꟱ꟲꟳꟴꟵꟶꟷꟸꟹꟺꟻꟼꟽꟾꟿꢀꢁꢂꢃꢄꢅꢆꢇꢈꢉꢊꢋꢌꢍꢎꢏꢐꢑꢒꢓꢔꢕꢖꢗꢘꢙꢚꢛꢜꢝꢞꢟꢠꢡꢢꢣꢤꢥꢦꢧꢨꢩꢪꢫꢬꢭꢮꢯꢰꢱꢲꢳꢴꢵꢶꢷꢸꢹꢺꢻꢼꢽꢾꢿꣀꣁꣂꣃ꣄ꣅ꣆꣇꣈꣉꣊꣋꣌꣍꣎꣏꣐꣑꣒꣓꣔꣕꣖꣗꣘꣙꣚꣛꣜꣝꣞꣟꣠꣡꣢꣣꣤꣥꣦꣧꣨꣩꣪꣫꣬꣭꣮꣯꣰꣱ꣲꣳꣴꣵꣶꣷ꣸꣹꣺ꣻ꣼ꣽꣾꣿꦀꦁꦂꦃꦄꦅꦆꦇꦈꦉꦊꦋꦌꦍꦎꦏꦐꦑꦒꦓꦔꦕꦖꦗꦘꦙꦚꦛꦜꦝꦞꦟꦠꦡꦢꦣꦤꦥꦦꦧꦨꦩꦪꦫꦬꦭꦮꦯꦰꦱꦲ꦳ꦴꦵꦶꦷꦸꦹꦺꦻꦼꦽꦾꦿ꧀꧁꧂꧃꧄꧅꧆꧇꧈꧉꧊꧋꧌꧍꧎ꧏ꧐꧑꧒꧓꧔꧕꧖꧗꧘꧙꧚꧛꧜꧝꧞꧟ꧠꧡꧢꧣꧤꧥꧦꧧꧨꧩꧪꧫꧬꧭꧮꧯ꧰꧱꧲꧳꧴꧵꧶꧷꧸꧹ꧺꧻꧼꧽꧾ꧿ꪀꪁꪂꪃꪄꪅꪆꪇꪈꪉꪊꪋꪌꪍꪎꪏꪐꪑꪒꪓꪔꪕꪖꪗꪘꪙꪚꪛꪜꪝꪞꪟꪠꪡꪢꪣꪤꪥꪦꪧꪨꪩꪪꪫꪬꪭꪮꪯꪰꪱꪴꪲꪳꪵꪶꪷꪸꪹꪺꪻꪼꪽꪾ꪿ꫀ꫁ꫂ꫃꫄꫅꫆꫇꫈꫉꫊꫋꫌꫍꫎꫏꫐꫑꫒꫓꫔꫕꫖꫗꫘꫙꫚ꫛꫜꫝ꫞꫟ꫠꫡꫢꫣꫤꫥꫦꫧꫨꫩꫪꫫꫬꫭꫮꫯ꫰꫱ꫲꫳꫴꫵ꫶꫷꫸꫹꫺꫻꫼꫽꫾꫿ꮀꮁꮂꮃꮄꮅꮆꮇꮈꮉꮊꮋꮌꮍꮎꮏꮐꮑꮒꮓꮔꮕꮖꮗꮘꮙꮚꮛꮜꮝꮞꮟꮠꮡꮢꮣꮤꮥꮦꮧꮨꮩꮪꮫꮬꮭꮮꮯꮰꮱꮲꮳꮴꮵꮶꮷꮸꮹꮺꮻꮼꮽꮾꮿꯀꯁꯂꯃꯄꯅꯆꯇꯈꯉꯊꯋꯌꯍꯎꯏꯐꯑꯒꯓꯔꯕꯖꯗꯘꯙꯚꯛꯜꯝꯞꯟꯠꯡꯢꯣꯤꯥꯦꯧꯨꯩꯪ꯫꯬꯭꯮꯯꯰꯱꯲꯳꯴꯵꯶꯷꯸꯹꯺꯻꯼꯽꯾꯿검겁겂것겄겅겆겇겈겉겊겋게겍겎겏겐겑겒겓겔겕겖겗겘겙겚겛겜겝겞겟겠겡겢겣겤겥겦겧겨격겪겫견겭겮겯결겱겲겳겴겵겶겷겸겹겺겻겼경겾겿곀곁곂곃계곅곆곇곈곉곊곋곌곍곎곏곐곑곒곓곔곕곖곗곘곙곚곛곜곝곞곟고곡곢곣곤곥곦곧골곩곪곫곬곭곮곯곰곱곲곳곴공곶곷곸곹곺곻과곽곾곿궀궁궂궃궄궅궆궇궈궉궊궋권궍궎궏궐궑궒궓궔궕궖궗궘궙궚궛궜궝궞궟궠궡궢궣궤궥궦궧궨궩궪궫궬궭궮궯궰궱궲궳궴궵궶궷궸궹궺궻궼궽궾궿귀귁귂귃귄귅귆귇귈귉귊귋귌귍귎귏귐귑귒귓귔귕귖귗귘귙귚귛규귝귞귟균귡귢귣귤귥귦귧귨귩귪귫귬귭귮귯귰귱귲귳귴귵귶귷그극귺귻근귽귾귿꺀꺁꺂꺃꺄꺅꺆꺇꺈꺉꺊꺋꺌꺍꺎꺏꺐꺑꺒꺓꺔꺕꺖꺗꺘꺙꺚꺛꺜꺝꺞꺟꺠꺡꺢꺣꺤꺥꺦꺧꺨꺩꺪꺫꺬꺭꺮꺯꺰꺱꺲꺳꺴꺵꺶꺷꺸꺹꺺꺻꺼꺽꺾꺿껀껁껂껃껄껅껆껇껈껉껊껋껌껍껎껏껐껑껒껓껔껕껖껗께껙껚껛껜껝껞껟껠껡껢껣껤껥껦껧껨껩껪껫껬껭껮껯껰껱껲껳껴껵껶껷껸껹껺껻껼껽껾껿꾀꾁꾂꾃꾄꾅꾆꾇꾈꾉꾊꾋꾌꾍꾎꾏꾐꾑꾒꾓꾔꾕꾖꾗꾘꾙꾚꾛꾜꾝꾞꾟꾠꾡꾢꾣꾤꾥꾦꾧꾨꾩꾪꾫꾬꾭꾮꾯꾰꾱꾲꾳꾴꾵꾶꾷꾸꾹꾺꾻꾼꾽꾾꾿꿀꿁꿂꿃꿄꿅꿆꿇꿈꿉꿊꿋꿌꿍꿎꿏꿐꿑꿒꿓꿔꿕꿖꿗꿘꿙꿚꿛꿜꿝꿞꿟꿠꿡꿢꿣꿤꿥꿦꿧꿨꿩꿪꿫꿬꿭꿮꿯꿰꿱꿲꿳꿴꿵꿶꿷꿸꿹꿺꿻꿼꿽꿾꿿낀낁낂낃낄낅낆낇낈낉낊낋낌낍낎낏낐낑낒낓낔낕낖낗나낙낚낛난낝낞낟날낡낢낣낤낥낦낧남납낪낫났낭낮낯낰낱낲낳내낵낶낷낸낹낺낻낼낽낾낿냀냁냂냃냄냅냆냇냈냉냊냋냌냍냎냏냐냑냒냓냔냕냖냗냘냙냚냛냜냝냞냟냠냡냢냣냤냥냦냧냨냩냪냫냬냭냮냯냰냱냲냳냴냵냶냷냸냹냺냻냼냽냾냿놀놁놂놃놄놅놆놇놈놉놊놋놌농놎놏놐놑높놓놔놕놖놗놘놙놚놛놜놝놞놟놠놡놢놣놤놥놦놧놨놩놪놫놬놭놮놯놰놱놲놳놴놵놶놷놸놹놺놻놼놽놾놿뇀뇁뇂뇃뇄뇅뇆뇇뇈뇉뇊뇋뇌뇍뇎뇏뇐뇑뇒뇓뇔뇕뇖뇗뇘뇙뇚뇛뇜뇝뇞뇟뇠뇡뇢뇣뇤뇥뇦뇧뇨뇩뇪뇫뇬뇭뇮뇯뇰뇱뇲뇳뇴뇵뇶뇷뇸뇹뇺뇻뇼뇽뇾뇿늀늁늂늃늄늅늆늇늈늉늊늋늌늍늎늏느늑늒늓는늕늖늗늘늙늚늛늜늝늞늟늠늡늢늣늤능늦늧늨늩늪늫늬늭늮늯늰늱늲늳늴늵늶늷늸늹늺늻늼늽늾늿닀닁닂닃닄닅닆닇니닉닊닋닌닍닎닏닐닑닒닓닔닕닖닗님닙닚닛닜닝닞닟닠닡닢닣다닥닦닧단닩닪닫달닭닮닯닰닱닲닳담답닶닷닸당닺닻닼닽닾닿뎀뎁뎂뎃뎄뎅뎆뎇뎈뎉뎊뎋뎌뎍뎎뎏뎐뎑뎒뎓뎔뎕뎖뎗뎘뎙뎚뎛뎜뎝뎞뎟뎠뎡뎢뎣뎤뎥뎦뎧뎨뎩뎪뎫뎬뎭뎮뎯뎰뎱뎲뎳뎴뎵뎶뎷뎸뎹뎺뎻뎼뎽뎾뎿돀돁돂돃도독돆돇돈돉돊돋돌돍돎돏돐돑돒돓돔돕돖돗돘동돚돛돜돝돞돟돠돡돢돣돤돥돦돧돨돩돪돫돬돭돮돯돰돱돲돳돴돵돶돷돸돹돺돻돼돽돾돿뒀뒁뒂뒃뒄뒅뒆뒇뒈뒉뒊뒋뒌뒍뒎뒏뒐뒑뒒뒓뒔뒕뒖뒗뒘뒙뒚뒛뒜뒝뒞뒟뒠뒡뒢뒣뒤뒥뒦뒧뒨뒩뒪뒫뒬뒭뒮뒯뒰뒱뒲뒳뒴뒵뒶뒷뒸뒹뒺뒻뒼뒽뒾뒿듀듁듂듃듄듅듆듇듈듉듊듋듌듍듎듏듐듑듒듓듔듕듖듗듘듙듚듛드득듞듟든듡듢듣들듥듦듧듨듩듪듫듬듭듮듯듰등듲듳듴듵듶듷듸듹듺듻듼듽듾듿떀떁떂떃떄떅떆떇떈떉떊떋떌떍떎떏떐떑떒떓떔떕떖떗떘떙떚떛떜떝떞떟떠떡떢떣떤떥떦떧떨떩떪떫떬떭떮떯떰떱떲떳떴떵떶떷떸떹떺떻떼떽떾떿뗀뗁뗂뗃뗄뗅뗆뗇뗈뗉뗊뗋뗌뗍뗎뗏뗐뗑뗒뗓뗔뗕뗖뗗뗘뗙뗚뗛뗜뗝뗞뗟뗠뗡뗢뗣뗤뗥뗦뗧뗨뗩뗪뗫뗬뗭뗮뗯뗰뗱뗲뗳뗴뗵뗶뗷뗸뗹뗺뗻뗼뗽뗾뗿뚀뚁뚂뚃뚄뚅뚆뚇뚈뚉뚊뚋뚌뚍뚎뚏뚐뚑뚒뚓뚔뚕뚖뚗뚘뚙뚚뚛뚜뚝뚞뚟뚠뚡뚢뚣뚤뚥뚦뚧뚨뚩뚪뚫뚬뚭뚮뚯뚰뚱뚲뚳뚴뚵뚶뚷뚸뚹뚺뚻뚼뚽뚾뚿뛀뛁뛂뛃뛄뛅뛆뛇뛈뛉뛊뛋뛌뛍뛎뛏뛐뛑뛒뛓뛔뛕뛖뛗뛘뛙뛚뛛뛜뛝뛞뛟뛠뛡뛢뛣뛤뛥뛦뛧뛨뛩뛪뛫뛬뛭뛮뛯뛰뛱뛲뛳뛴뛵뛶뛷뛸뛹뛺뛻뛼뛽뛾뛿란랁랂랃랄랅랆랇랈랉랊랋람랍랎랏랐랑랒랓랔랕랖랗래랙랚랛랜랝랞랟랠랡랢랣랤랥랦랧램랩랪랫랬랭랮랯랰랱랲랳랴략랶랷랸랹랺랻랼랽랾랿럀럁럂럃럄럅럆럇럈량럊럋럌럍럎럏럐럑럒럓럔럕럖럗럘럙럚럛럜럝럞럟럠럡럢럣럤럥럦럧럨럩럪럫러럭럮럯런럱럲럳럴럵럶럷럸럹럺럻럼럽럾럿뢀뢁뢂뢃뢄뢅뢆뢇뢈뢉뢊뢋뢌뢍뢎뢏뢐뢑뢒뢓뢔뢕뢖뢗뢘뢙뢚뢛뢜뢝뢞뢟뢠뢡뢢뢣뢤뢥뢦뢧뢨뢩뢪뢫뢬뢭뢮뢯뢰뢱뢲뢳뢴뢵뢶뢷뢸뢹뢺뢻뢼뢽뢾뢿룀룁룂룃룄룅룆룇룈룉룊룋료룍룎룏룐룑룒룓룔룕룖룗룘룙룚룛룜룝룞룟룠룡룢룣룤룥룦룧루룩룪룫룬룭룮룯룰룱룲룳룴룵룶룷룸룹룺룻룼룽룾룿릀릁릂릃름릅릆릇릈릉릊릋릌릍릎릏릐릑릒릓릔릕릖릗릘릙릚릛릜릝릞릟릠릡릢릣릤릥릦릧릨릩릪릫리릭릮릯린릱릲릳릴릵릶릷릸릹릺릻림립릾릿맀링맂맃맄맅맆맇마막맊맋만맍많맏말맑맒맓맔맕맖맗맘맙맚맛맜망맞맟맠맡맢맣매맥맦맧맨맩맪맫맬맭맮맯맰맱맲맳맴맵맶맷맸맹맺맻맼맽맾맿몀몁몂몃몄명몆몇몈몉몊몋몌몍몎몏몐몑몒몓몔몕몖몗몘몙몚몛몜몝몞몟몠몡몢몣몤몥몦몧모목몪몫몬몭몮몯몰몱몲몳몴몵몶몷몸몹몺못몼몽몾몿뫀뫁뫂뫃뫄뫅뫆뫇뫈뫉뫊뫋뫌뫍뫎뫏뫐뫑뫒뫓뫔뫕뫖뫗뫘뫙뫚뫛뫜뫝뫞뫟뫠뫡뫢뫣뫤뫥뫦뫧뫨뫩뫪뫫뫬뫭뫮뫯뫰뫱뫲뫳뫴뫵뫶뫷뫸뫹뫺뫻뫼뫽뫾뫿뮀뮁뮂뮃뮄뮅뮆뮇뮈뮉뮊뮋뮌뮍뮎뮏뮐뮑뮒뮓뮔뮕뮖뮗뮘뮙뮚뮛뮜뮝뮞뮟뮠뮡뮢뮣뮤뮥뮦뮧뮨뮩뮪뮫뮬뮭뮮뮯뮰뮱뮲뮳뮴뮵뮶뮷뮸뮹뮺뮻뮼뮽뮾뮿므믁믂믃믄믅믆믇믈믉믊믋믌믍믎믏믐믑믒믓믔믕믖믗믘믙믚믛믜믝믞믟믠믡믢믣믤믥믦믧믨믩믪믫믬믭믮믯믰믱믲믳믴믵믶믷미믹믺믻민믽믾믿벀벁벂벃버벅벆벇번벉벊벋벌벍벎벏벐벑벒벓범법벖벗벘벙벚벛벜벝벞벟베벡벢벣벤벥벦벧벨벩벪벫벬벭벮벯벰벱벲벳벴벵벶벷벸벹벺벻벼벽벾벿변볁볂볃별볅볆볇볈볉볊볋볌볍볎볏볐병볒볓볔볕볖볗볘볙볚볛볜볝볞볟볠볡볢볣볤볥볦볧볨볩볪볫볬볭볮볯볰볱볲볳보복볶볷본볹볺볻볼볽볾볿부북붂붃분붅붆붇불붉붊붋붌붍붎붏붐붑붒붓붔붕붖붗붘붙붚붛붜붝붞붟붠붡붢붣붤붥붦붧붨붩붪붫붬붭붮붯붰붱붲붳붴붵붶붷붸붹붺붻붼붽붾붿뷀뷁뷂뷃뷄뷅뷆뷇뷈뷉뷊뷋뷌뷍뷎뷏뷐뷑뷒뷓뷔뷕뷖뷗뷘뷙뷚뷛뷜뷝뷞뷟뷠뷡뷢뷣뷤뷥뷦뷧뷨뷩뷪뷫뷬뷭뷮뷯뷰뷱뷲뷳뷴뷵뷶뷷뷸뷹뷺뷻뷼뷽뷾뷿뺀뺁뺂뺃뺄뺅뺆뺇뺈뺉뺊뺋뺌뺍뺎뺏뺐뺑뺒뺓뺔뺕뺖뺗뺘뺙뺚뺛뺜뺝뺞뺟뺠뺡뺢뺣뺤뺥뺦뺧뺨뺩뺪뺫뺬뺭뺮뺯뺰뺱뺲뺳뺴뺵뺶뺷뺸뺹뺺뺻뺼뺽뺾뺿뻀뻁뻂뻃뻄뻅뻆뻇뻈뻉뻊뻋뻌뻍뻎뻏뻐뻑뻒뻓뻔뻕뻖뻗뻘뻙뻚뻛뻜뻝뻞뻟뻠뻡뻢뻣뻤뻥뻦뻧뻨뻩뻪뻫뻬뻭뻮뻯뻰뻱뻲뻳뻴뻵뻶뻷뻸뻹뻺뻻뻼뻽뻾뻿뾀뾁뾂뾃뾄뾅뾆뾇뾈뾉뾊뾋뾌뾍뾎뾏뾐뾑뾒뾓뾔뾕뾖뾗뾘뾙뾚뾛뾜뾝뾞뾟뾠뾡뾢뾣뾤뾥뾦뾧뾨뾩뾪뾫뾬뾭뾮뾯뾰뾱뾲뾳뾴뾵뾶뾷뾸뾹뾺뾻뾼뾽뾾뾿뿀뿁뿂뿃뿄뿅뿆뿇뿈뿉뿊뿋뿌뿍뿎뿏뿐뿑뿒뿓뿔뿕뿖뿗뿘뿙뿚뿛뿜뿝뿞뿟뿠뿡뿢뿣뿤뿥뿦뿧뿨뿩뿪뿫뿬뿭뿮뿯뿰뿱뿲뿳뿴뿵뿶뿷뿸뿹뿺뿻뿼뿽뿾뿿삀삁삂삃삄삅삆삇삈삉삊삋삌삍삎삏삐삑삒삓삔삕삖삗삘삙삚삛삜삝삞삟삠삡삢삣삤삥삦삧삨삩삪삫사삭삮삯산삱삲삳살삵삶삷삸삹삺삻삼삽삾삿샀상샂샃샄샅샆샇새색샊샋샌샍샎샏샐샑샒샓샔샕샖샗샘샙샚샛샜생샞샟샠샡샢샣샤샥샦샧샨샩샪샫샬샭샮샯샰샱샲샳샴샵샶샷샸샹샺샻샼샽샾샿솀솁솂솃솄솅솆솇솈솉솊솋소속솎솏손솑솒솓솔솕솖솗솘솙솚솛솜솝솞솟솠송솢솣솤솥솦솧솨솩솪솫솬솭솮솯솰솱솲솳솴솵솶솷솸솹솺솻솼솽솾솿쇀쇁쇂쇃쇄쇅쇆쇇쇈쇉쇊쇋쇌쇍쇎쇏쇐쇑쇒쇓쇔쇕쇖쇗쇘쇙쇚쇛쇜쇝쇞쇟쇠쇡쇢쇣쇤쇥쇦쇧쇨쇩쇪쇫쇬쇭쇮쇯쇰쇱쇲쇳쇴쇵쇶쇷쇸쇹쇺쇻쇼쇽쇾쇿슀슁슂슃슄슅슆슇슈슉슊슋슌슍슎슏슐슑슒슓슔슕슖슗슘슙슚슛슜슝슞슟슠슡슢슣스슥슦슧슨슩슪슫슬슭슮슯슰슱슲슳슴습슶슷슸승슺슻슼슽슾슿싀싁싂싃싄싅싆싇싈싉싊싋싌싍싎싏싐싑싒싓싔싕싖싗싘싙싚싛시식싞싟신싡싢싣실싥싦싧싨싩싪싫심십싮싯싰싱싲싳싴싵싶싷싸싹싺싻싼싽싾싿쎀쎁쎂쎃쎄쎅쎆쎇쎈쎉쎊쎋쎌쎍쎎쎏쎐쎑쎒쎓쎔쎕쎖쎗쎘쎙쎚쎛쎜쎝쎞쎟쎠쎡쎢쎣쎤쎥쎦쎧쎨쎩쎪쎫쎬쎭쎮쎯쎰쎱쎲쎳쎴쎵쎶쎷쎸쎹쎺쎻쎼쎽쎾쎿쏀쏁쏂쏃쏄쏅쏆쏇쏈쏉쏊쏋쏌쏍쏎쏏쏐쏑쏒쏓쏔쏕쏖쏗쏘쏙쏚쏛쏜쏝쏞쏟쏠쏡쏢쏣쏤쏥쏦쏧쏨쏩쏪쏫쏬쏭쏮쏯쏰쏱쏲쏳쏴쏵쏶쏷쏸쏹쏺쏻쏼쏽쏾쏿쒀쒁쒂쒃쒄쒅쒆쒇쒈쒉쒊쒋쒌쒍쒎쒏쒐쒑쒒쒓쒔쒕쒖쒗쒘쒙쒚쒛쒜쒝쒞쒟쒠쒡쒢쒣쒤쒥쒦쒧쒨쒩쒪쒫쒬쒭쒮쒯쒰쒱쒲쒳쒴쒵쒶쒷쒸쒹쒺쒻쒼쒽쒾쒿쓀쓁쓂쓃쓄쓅쓆쓇쓈쓉쓊쓋쓌쓍쓎쓏쓐쓑쓒쓓쓔쓕쓖쓗쓘쓙쓚쓛쓜쓝쓞쓟쓠쓡쓢쓣쓤쓥쓦쓧쓨쓩쓪쓫쓬쓭쓮쓯쓰쓱쓲쓳쓴쓵쓶쓷쓸쓹쓺쓻쓼쓽쓾쓿얀얁얂얃얄얅얆얇얈얉얊얋얌얍얎얏얐양얒얓얔얕얖얗얘얙얚얛얜얝얞얟얠얡얢얣얤얥얦얧얨얩얪얫얬얭얮얯얰얱얲얳어억얶얷언얹얺얻얼얽얾얿엀엁엂엃엄업없엇었엉엊엋엌엍엎엏에엑엒엓엔엕엖엗엘엙엚엛엜엝엞엟엠엡엢엣엤엥엦엧엨엩엪엫여역엮엯연엱엲엳열엵엶엷엸엹엺엻염엽엾엿욀욁욂욃욄욅욆욇욈욉욊욋욌욍욎욏욐욑욒욓요욕욖욗욘욙욚욛욜욝욞욟욠욡욢욣욤욥욦욧욨용욪욫욬욭욮욯우욱욲욳운욵욶욷울욹욺욻욼욽욾욿움웁웂웃웄웅웆웇웈웉웊웋워웍웎웏원웑웒웓월웕웖웗웘웙웚웛웜웝웞웟웠웡웢웣웤웥웦웧웨웩웪웫웬웭웮웯웰웱웲웳웴웵웶웷웸웹웺웻웼웽웾웿잀잁잂잃임입잆잇있잉잊잋잌잍잎잏자작잒잓잔잕잖잗잘잙잚잛잜잝잞잟잠잡잢잣잤장잦잧잨잩잪잫재잭잮잯잰잱잲잳잴잵잶잷잸잹잺잻잼잽잾잿쟀쟁쟂쟃쟄쟅쟆쟇쟈쟉쟊쟋쟌쟍쟎쟏쟐쟑쟒쟓쟔쟕쟖쟗쟘쟙쟚쟛쟜쟝쟞쟟쟠쟡쟢쟣쟤쟥쟦쟧쟨쟩쟪쟫쟬쟭쟮쟯쟰쟱쟲쟳쟴쟵쟶쟷쟸쟹쟺쟻쟼쟽쟾쟿좀좁좂좃좄종좆좇좈좉좊좋좌좍좎좏좐좑좒좓좔좕좖좗좘좙좚좛좜좝좞좟좠좡좢좣좤좥좦좧좨좩좪좫좬좭좮좯좰좱좲좳좴좵좶좷좸좹좺좻좼좽좾좿죀죁죂죃죄죅죆죇죈죉죊죋죌죍죎죏죐죑죒죓죔죕죖죗죘죙죚죛죜죝죞죟죠죡죢죣죤죥죦죧죨죩죪죫죬죭죮죯죰죱죲죳죴죵죶죷죸죹죺죻주죽죾죿즀즁즂즃즄즅즆즇즈즉즊즋즌즍즎즏즐즑즒즓즔즕즖즗즘즙즚즛즜증즞즟즠즡즢즣즤즥즦즧즨즩즪즫즬즭즮즯즰즱즲즳즴즵즶즷즸즹즺즻즼즽즾즿지직짂짃진짅짆짇질짉짊짋짌짍짎짏짐집짒짓짔징짖짗짘짙짚짛짜짝짞짟짠짡짢짣짤짥짦짧짨짩짪짫짬짭짮짯짰짱짲짳짴짵짶짷째짹짺짻짼짽짾짿쪀쪁쪂쪃쪄쪅쪆쪇쪈쪉쪊쪋쪌쪍쪎쪏쪐쪑쪒쪓쪔쪕쪖쪗쪘쪙쪚쪛쪜쪝쪞쪟쪠쪡쪢쪣쪤쪥쪦쪧쪨쪩쪪쪫쪬쪭쪮쪯쪰쪱쪲쪳쪴쪵쪶쪷쪸쪹쪺쪻쪼쪽쪾쪿쫀쫁쫂쫃쫄쫅쫆쫇쫈쫉쫊쫋쫌쫍쫎쫏쫐쫑쫒쫓쫔쫕쫖쫗쫘쫙쫚쫛쫜쫝쫞쫟쫠쫡쫢쫣쫤쫥쫦쫧쫨쫩쫪쫫쫬쫭쫮쫯쫰쫱쫲쫳쫴쫵쫶쫷쫸쫹쫺쫻쫼쫽쫾쫿쮀쮁쮂쮃쮄쮅쮆쮇쮈쮉쮊쮋쮌쮍쮎쮏쮐쮑쮒쮓쮔쮕쮖쮗쮘쮙쮚쮛쮜쮝쮞쮟쮠쮡쮢쮣쮤쮥쮦쮧쮨쮩쮪쮫쮬쮭쮮쮯쮰쮱쮲쮳쮴쮵쮶쮷쮸쮹쮺쮻쮼쮽쮾쮿쯀쯁쯂쯃쯄쯅쯆쯇쯈쯉쯊쯋쯌쯍쯎쯏쯐쯑쯒쯓쯔쯕쯖쯗쯘쯙쯚쯛쯜쯝쯞쯟쯠쯡쯢쯣쯤쯥쯦쯧쯨쯩쯪쯫쯬쯭쯮쯯쯰쯱쯲쯳쯴쯵쯶쯷쯸쯹쯺쯻쯼쯽쯾쯿첀첁첂첃첄첅첆첇첈첉첊첋첌첍첎첏첐첑첒첓첔첕첖첗처척첚첛천첝첞첟철첡첢첣첤첥첦첧첨첩첪첫첬청첮첯첰첱첲첳체첵첶첷첸첹첺첻첼첽첾첿쳀쳁쳂쳃쳄쳅쳆쳇쳈쳉쳊쳋쳌쳍쳎쳏쳐쳑쳒쳓쳔쳕쳖쳗쳘쳙쳚쳛쳜쳝쳞쳟쳠쳡쳢쳣쳤쳥쳦쳧쳨쳩쳪쳫쳬쳭쳮쳯쳰쳱쳲쳳쳴쳵쳶쳷쳸쳹쳺쳻쳼쳽쳾쳿춀춁춂춃춄춅춆춇춈춉춊춋춌춍춎춏춐춑춒춓추축춖춗춘춙춚춛출춝춞춟춠춡춢춣춤춥춦춧춨충춪춫춬춭춮춯춰춱춲춳춴춵춶춷춸춹춺춻춼춽춾춿췀췁췂췃췄췅췆췇췈췉췊췋췌췍췎췏췐췑췒췓췔췕췖췗췘췙췚췛췜췝췞췟췠췡췢췣췤췥췦췧취췩췪췫췬췭췮췯췰췱췲췳췴췵췶췷췸췹췺췻췼췽췾췿캀캁캂캃캄캅캆캇캈캉캊캋캌캍캎캏캐캑캒캓캔캕캖캗캘캙캚캛캜캝캞캟캠캡캢캣캤캥캦캧캨캩캪캫캬캭캮캯캰캱캲캳캴캵캶캷캸캹캺캻캼캽캾캿컀컁컂컃컄컅컆컇컈컉컊컋컌컍컎컏컐컑컒컓컔컕컖컗컘컙컚컛컜컝컞컟컠컡컢컣커컥컦컧컨컩컪컫컬컭컮컯컰컱컲컳컴컵컶컷컸컹컺컻컼컽컾컿쾀쾁쾂쾃쾄쾅쾆쾇쾈쾉쾊쾋쾌쾍쾎쾏쾐쾑쾒쾓쾔쾕쾖쾗쾘쾙쾚쾛쾜쾝쾞쾟쾠쾡쾢쾣쾤쾥쾦쾧쾨쾩쾪쾫쾬쾭쾮쾯쾰쾱쾲쾳쾴쾵쾶쾷쾸쾹쾺쾻쾼쾽쾾쾿쿀쿁쿂쿃쿄쿅쿆쿇쿈쿉쿊쿋쿌쿍쿎쿏쿐쿑쿒쿓쿔쿕쿖쿗쿘쿙쿚쿛쿜쿝쿞쿟쿠쿡쿢쿣쿤쿥쿦쿧쿨쿩쿪쿫쿬쿭쿮쿯쿰쿱쿲쿳쿴쿵쿶쿷쿸쿹쿺쿻쿼쿽쿾쿿킀킁킂킃킄킅킆킇킈킉킊킋킌킍킎킏킐킑킒킓킔킕킖킗킘킙킚킛킜킝킞킟킠킡킢킣키킥킦킧킨킩킪킫킬킭킮킯킰킱킲킳킴킵킶킷킸킹킺킻킼킽킾킿타탁탂탃탄탅탆탇탈탉탊탋탌탍탎탏탐탑탒탓탔탕탖탗탘탙탚탛태택탞탟탠탡탢탣탤탥탦탧탨탩탪탫탬탭탮탯탰탱탲탳탴탵탶탷탸탹탺탻탼탽탾탿톀톁톂톃톄톅톆톇톈톉톊톋톌톍톎톏톐톑톒톓톔톕톖톗톘톙톚톛톜톝톞톟토톡톢톣톤톥톦톧톨톩톪톫톬톭톮톯톰톱톲톳톴통톶톷톸톹톺톻톼톽톾톿퇀퇁퇂퇃퇄퇅퇆퇇퇈퇉퇊퇋퇌퇍퇎퇏퇐퇑퇒퇓퇔퇕퇖퇗퇘퇙퇚퇛퇜퇝퇞퇟퇠퇡퇢퇣퇤퇥퇦퇧퇨퇩퇪퇫퇬퇭퇮퇯퇰퇱퇲퇳퇴퇵퇶퇷퇸퇹퇺퇻퇼퇽퇾퇿튀튁튂튃튄튅튆튇튈튉튊튋튌튍튎튏튐튑튒튓튔튕튖튗튘튙튚튛튜튝튞튟튠튡튢튣튤튥튦튧튨튩튪튫튬튭튮튯튰튱튲튳튴튵튶튷트특튺튻튼튽튾튿틀틁틂틃틄틅틆틇틈틉틊틋틌틍틎틏틐틑틒틓틔틕틖틗틘틙틚틛틜틝틞틟틠틡틢틣틤틥틦틧틨틩틪틫틬틭틮틯티틱틲틳틴틵틶틷틸틹틺틻틼틽틾틿펀펁펂펃펄펅펆펇펈펉펊펋펌펍펎펏펐펑펒펓펔펕펖펗페펙펚펛펜펝펞펟펠펡펢펣펤펥펦펧펨펩펪펫펬펭펮펯펰펱펲펳펴펵펶펷편펹펺펻펼펽펾펿폀폁폂폃폄폅폆폇폈평폊폋폌폍폎폏폐폑폒폓폔폕폖폗폘폙폚폛폜폝폞폟폠폡폢폣폤폥폦폧폨폩폪폫포폭폮폯폰폱폲폳폴폵폶폷폸폹폺폻폼폽폾폿풀풁풂풃풄풅풆풇품풉풊풋풌풍풎풏풐풑풒풓풔풕풖풗풘풙풚풛풜풝풞풟풠풡풢풣풤풥풦풧풨풩풪풫풬풭풮풯풰풱풲풳풴풵풶풷풸풹풺풻풼풽풾풿퓀퓁퓂퓃퓄퓅퓆퓇퓈퓉퓊퓋퓌퓍퓎퓏퓐퓑퓒퓓퓔퓕퓖퓗퓘퓙퓚퓛퓜퓝퓞퓟퓠퓡퓢퓣퓤퓥퓦퓧퓨퓩퓪퓫퓬퓭퓮퓯퓰퓱퓲퓳퓴퓵퓶퓷퓸퓹퓺퓻퓼퓽퓾퓿햀햁햂햃햄햅햆햇했행햊햋햌햍햎햏햐햑햒햓햔햕햖햗햘햙햚햛햜햝햞햟햠햡햢햣햤향햦햧햨햩햪햫햬햭햮햯햰햱햲햳햴햵햶햷햸햹햺햻햼햽햾햿헀헁헂헃헄헅헆헇허헉헊헋헌헍헎헏헐헑헒헓헔헕헖헗험헙헚헛헜헝헞헟헠헡헢헣헤헥헦헧헨헩헪헫헬헭헮헯헰헱헲헳헴헵헶헷헸헹헺헻헼헽헾헿횀횁횂횃횄횅횆횇횈횉횊횋회획횎횏횐횑횒횓횔횕횖횗횘횙횚횛횜횝횞횟횠횡횢횣횤횥횦횧효횩횪횫횬횭횮횯횰횱횲횳횴횵횶횷횸횹횺횻횼횽횾횿훀훁훂훃후훅훆훇훈훉훊훋훌훍훎훏훐훑훒훓훔훕훖훗훘훙훚훛훜훝훞훟훠훡훢훣훤훥훦훧훨훩훪훫훬훭훮훯훰훱훲훳훴훵훶훷훸훹훺훻훼훽훾훿힀힁힂힃힄힅힆힇히힉힊힋힌힍힎힏힐힑힒힓힔힕힖힗힘힙힚힛힜힝힞힟힠힡힢힣힤힥힦힧힨힩힪힫힬힭힮힯ힰힱힲힳힴힵힶힷힸힹힺힻힼힽힾힿퟀퟁퟂퟃퟄퟅퟆ퟇퟈퟉퟊ퟋퟌퟍퟎퟏퟐퟑퟒퟓퟔퟕퟖퟗퟘퟙퟚퟛퟜퟝퟞퟟퟠퟡퟢퟣퟤퟥퟦퟧퟨퟩퟪퟫퟬퟭퟮퟯퟰퟱퟲퟳퟴퟵퟶퟷퟸퟹퟺퟻ퟼퟽퟾퟿呂女廬旅濾礪閭驪麗黎力曆歷轢年憐戀撚漣煉璉秊練聯輦蓮連鍊列劣咽烈裂說廉念捻殮簾獵令囹寧嶺怜玲瑩羚聆鈴零靈領例禮醴隸惡了僚寮尿料樂燎療蓼遼龍暈阮劉杻柳流溜琉留硫紐類六戮陸倫崙淪輪律慄栗率隆利吏履易李梨泥理痢罹裏裡里離匿溺吝燐璘藺隣鱗麟林淋臨立笠粒狀炙識什茶刺婢嬨廒廙彩徭惘慎愈憎慠懲戴揄搜摒敖晴朗望杖歹殺流滛滋漢瀞煮瞧爵犯猪瑱甆画瘝瘟益盛直睊着磌窱節类絛練缾者荒華蝹襁覆視調諸請謁諾諭謹變贈輸遲醙鉶陼難靖韛響頋頻鬒龜𢡊𢡄𣏕㮝䀘䀹𥉉𥳐𧻓齃龎﫚﫛﫜﫝﫞﫟﫠﫡﫢﫣﫤﫥﫦﫧﫨﫩﫪﫫﫬﫭﫮﫯﫰﫱﫲﫳﫴﫵﫶﫷﫸﫹﫺﫻﫼﫽﫾﫿ﮀﮁﮂﮃﮄﮅﮆﮇﮈﮉﮊﮋﮌﮍﮎﮏﮐﮑﮒﮓﮔﮕﮖﮗﮘﮙﮚﮛﮜﮝﮞﮟﮠﮡﮢﮣﮤﮥﮦﮧﮨﮩﮪﮫﮬﮭﮮﮯﮰﮱ﮲﮳﮴﮵﮶﮷﮸﮹﮺﮻﮼﮽﮾﮿﯀﯁﯂﯃﯄﯅﯆﯇﯈﯉﯊﯋﯌﯍﯎﯏﯐﯑﯒ﯓﯔﯕﯖﯗﯘﯙﯚﯛﯜﯝﯞﯟﯠﯡﯢﯣﯤﯥﯦﯧﯨﯩﯪﯫﯬﯭﯮﯯﯰﯱﯲﯳﯴﯵﯶﯷﯸﯹﯺﯻﯼﯽﯾﯿﲀﲁﲂﲃﲄﲅﲆﲇﲈﲉﲊﲋﲌﲍﲎﲏﲐﲑﲒﲓﲔﲕﲖﲗﲘﲙﲚﲛﲜﲝﲞﲟﲠﲡﲢﲣﲤﲥﲦﲧﲨﲩﲪﲫﲬﲭﲮﲯﲰﲱﲲﲳﲴﲵﲶﲷﲸﲹﲺﲻﲼﲽﲾﲿﳀﳁﳂﳃﳄﳅﳆﳇﳈﳉﳊﳋﳌﳍﳎﳏﳐﳑﳒﳓﳔﳕﳖﳗﳘﳙﳚﳛﳜﳝﳞﳟﳠﳡﳢﳣﳤﳥﳦﳧﳨﳩﳪﳫﳬﳭﳮﳯﳰﳱﳲﳳﳴﳵﳶﳷﳸﳹﳺﳻﳼﳽﳾﳿﶀﶁﶂﶃﶄﶅﶆﶇﶈﶉﶊﶋﶌﶍﶎﶏ﶐﶑ﶒﶓﶔﶕﶖﶗﶘﶙﶚﶛﶜﶝﶞﶟﶠﶡﶢﶣﶤﶥﶦﶧﶨﶩﶪﶫﶬﶭﶮﶯﶰﶱﶲﶳﶴﶵﶶﶷﶸﶹﶺﶻﶼﶽﶾﶿﷀﷁﷂﷃﷄﷅﷆﷇ﷈﷉﷊﷋﷌﷍﷎﷏﷐﷑﷒﷓﷔﷕﷖﷗﷘﷙﷚﷛﷜﷝﷞﷟﷠﷡﷢﷣﷤﷥﷦﷧﷨﷩﷪﷫﷬﷭﷮﷯ﷰﷱﷲﷳﷴﷵﷶﷷﷸﷹﷺﷻ﷼﷽﷾﷿ﺀﺁﺂﺃﺄﺅﺆﺇﺈﺉﺊﺋﺌﺍﺎﺏﺐﺑﺒﺓﺔﺕﺖﺗﺘﺙﺚﺛﺜﺝﺞﺟﺠﺡﺢﺣﺤﺥﺦﺧﺨﺩﺪﺫﺬﺭﺮﺯﺰﺱﺲﺳﺴﺵﺶﺷﺸﺹﺺﺻﺼﺽﺾﺿﻀﻁﻂﻃﻄﻅﻆﻇﻈﻉﻊﻋﻌﻍﻎﻏﻐﻑﻒﻓﻔﻕﻖﻗﻘﻙﻚﻛﻜﻝﻞﻟﻠﻡﻢﻣﻤﻥﻦﻧﻨﻩﻪﻫﻬﻭﻮﻯﻰﻱﻲﻳﻴﻵﻶﻷﻸﻹﻺﻻﻼ﻽﻾﻿ﾀﾁﾂﾃﾄﾅﾆﾇﾈﾉﾊﾋﾌﾍﾎﾏﾐﾑﾒﾓﾔﾕﾖﾗﾘﾙﾚﾛﾜﾝﾞﾟﾠﾡﾢﾣﾤﾥﾦﾧﾨﾩﾪﾫﾬﾭﾮﾯﾰﾱﾲﾳﾴﾵﾶﾷﾸﾹﾺﾻﾼﾽﾾ﾿￀￁ￂￃￄￅￆￇ￈￉ￊￋￌￍￎￏ￐￑ￒￓￔￕￖￗ￘￙ￚￛￜ￝￞￟￠￡￢￣￤￥￦￧￨￩￪￫￬￭￮￯￰￱￲￳￴￵￶￷￸￹￺￻￼�￾￿"

\* ord(c): AllChars holds U+0001..U+00FF, then the upper half of each
\* block of 256 characters, the surrogates U+D800..U+DFFF left out
\* the code points of U+0001..U+00FF, by character
Latin1Ord ==
    [c \in CharSet(SubSeq(AllChars, 1, 255)) |->
        CHOOSE k \in 1..255 : SubSeq(AllChars, k, k) = c]

ord(c) ==
    IF c \in DOMAIN Latin1Ord THEN Latin1Ord[c]
    ELSE LET i == CHOOSE k \in 256..Len(AllChars) : SubSeq(AllChars, k, k) = c
             block == (i - 256) \div 128 + 1
         IN  (IF block >= 216 THEN block + 8 ELSE block) * 256
             + 128 + ((i - 256) % 128)

\* the characters c with c.isspace(), which are those \s matches
WhitespaceChars ==
    "\t\n\f\r   "

Whitespace == CharSet(WhitespaceChars)

\* the characters that \d matches
DigitChars ==
    "0123456789۰۱۲۳۴۵۶۷۸۹߀߁߂߃߄߅߆߇߈߉০১২৩৪৫৬৭৮৯૦૧૨૩૪૫૬૭૮૯௦௧௨௩௪௫௬௭௮௯೦೧೨೩೪೫೬೭೮೯෦෧෨෩෪෫෬෭෮෯໐໑໒໓໔໕໖໗໘໙႐႑႒႓႔႕႖႗႘႙០១២៣៤៥៦៧៨៩᧐᧑᧒᧓᧔᧕᧖᧗᧘᧙᪀᪁᪂᪃᪄᪅᪆᪇᪈᪉᪐᪑᪒᪓᪔᪕᪖᪗᪘᪙᮰᮱᮲᮳᮴᮵᮶᮷᮸᮹꣐꣑꣒꣓꣔꣕꣖꣗꣘꣙꧐꧑꧒꧓꧔꧕꧖꧗꧘꧙꧰꧱꧲꧳꧴꧵꧶꧷꧸꧹꯰꯱꯲꯳꯴꯵꯶꯷꯸꯹"

\* the characters c with c.lower() != c whose lower-case form a string of
\* the model can hold, and c.lower() for each
LowerFrom ==
    "ABCDEFGHIJKLMNOPQRSTUVWXYZÀÁÂÃÄÅÆÇÈÉÊËÌÍÎÏÐÑÒÓÔÕÖØÙÚÛÜÝÞƂƄƇƋƎƑƘƠƢƤƦƧƩƬƮƯƱƲƳƵƷƸƼǄǅǇǈǊǋǍǏǑǓǕǗǙǛǞǠǢǤǦǨǪǬǮǱǲǴǶǷǸǺǼǾΆΈΉΊΌΎΏΑΒΓΔΕΖΗΘΙΚΛΜΝΞΟΠΡΣΤΥΦΧΨΩΪΫϏϘϚϜϞϠϢϤϦϨϪϬϮϴϷϹϺҀҊҌҎҐҒҔҖҘҚҜҞҠҢҤҦҨҪҬҮҰҲҴҶҸҺҼҾӀӁӃӅӇӉӋӍӐӒӔӖӘӚӜӞӠӢӤӦӨӪӬӮӰӲӴӶӸӺӼӾᎰᎱᎲᎳᎴᎵᎶᎷᎸᎹᎺᎻᎼᎽᎾᎿᏀᏁᏂᏃᏄᏅᏆᏇᏈᏉᏊᏋᏌᏍᏎᏏᏐᏑᏒᏓᏔᏕᏖᏗᏘᏙᏚᏛᏜᏝᏞᏟᏠᏡᏢᏣᏤᏥᏦᏧᏨᏩᏪᏫᏬᏭᏮᏯᏰᏱᏲᏳᏴᏵᲐᲑᲒᲓᲔᲕᲖᲗᲘᲙᲚᲛᲜᲝᲞᲟᲠᲡᲢᲣᲤᲥᲦᲧᲨᲩᲪᲫᲬᲭᲮᲯᲰᲱᲲᲳᲴᲵᲶᲷᲸᲹᲺᲽᲾᲿẀẂẄẆẈẊẌẎẐẒẔẞẠẢẤẦẨẪẬẮẰẲẴẶẸẺẼẾỀỂỄỆỈỊỌỎỐỒỔỖỘỚỜỞỠỢỤỦỨỪỬỮỰỲỴỶỸỺỼỾᾈᾉᾊᾋᾌᾍᾎᾏᾘᾙᾚᾛᾜᾝᾞᾟᾨᾩᾪᾫᾬᾭᾮᾯᾸᾹᾼῌῘῙῨῩῬῼↃⒶⒷⒸⒹⒺⒻⒼⒽⒾⒿⓀⓁⓂⓃⓄⓅⓆⓇⓈⓉⓊⓋⓌⓍⓎⓏⲀⲂⲄⲆⲈⲊⲌⲎⲐⲒⲔⲖⲘⲚⲜⲞⲠⲢⲤⲦⲨⲪⲬⲮⲰⲲⲴⲶⲸⲺⲼⲾⳀⳂⳄⳆⳈⳊⳌⳎⳐⳒⳔⳖⳘⳚⳜⳞⳠⳢⳫⳭⳲꚀꚂꚄꚆꚈꚊꚌꚎꚐꚒꚔꚖꚘꚚꞀꞂꞄꞆꞋꞐꞒꞖꞘꞚꞜꞞꞠꞢꞤꞦꞨꞰꞱꞲꞴꞶꞸꞺꞼꞾꟀꟂꟄꟅꟆꟇꟉꟐꟖꟘꟵ"

LowerTo ==
    "abcdefghijklmnopqrstuvwxyzàáâãäåæçèéêëìíîïðñòóôõöøùúûüýþƃƅƈƌǝƒƙơƣƥʀƨʃƭʈưʊʋƴƶʒƹƽǆǆǉǉǌǌǎǐǒǔǖǘǚǜǟǡǣǥǧǩǫǭǯǳǳǵƕƿǹǻǽǿάέήίόύώαβγδεζηθικλμνξοπρστυφχψωϊϋϗϙϛϝϟϡϣϥϧϩϫϭϯθϸϲϻҁҋҍҏґғҕҗҙқҝҟҡңҥҧҩҫҭүұҳҵҷҹһҽҿӏӂӄӆӈӊӌӎӑӓӕӗәӛӝӟӡӣӥӧөӫӭӯӱӳӵӷӹӻӽӿꮀꮁꮂꮃꮄꮅꮆꮇꮈꮉꮊꮋꮌꮍꮎꮏꮐꮑꮒꮓꮔꮕꮖꮗꮘꮙꮚꮛꮜꮝꮞꮟꮠꮡꮢꮣꮤꮥꮦꮧꮨꮩꮪꮫꮬꮭꮮꮯꮰꮱꮲꮳꮴꮵꮶꮷꮸꮹꮺꮻꮼꮽꮾꮿᏸᏹᏺᏻᏼᏽაბგდევზთიკლმნოპჟრსტუფქღყშჩცძწჭხჯჰჱჲჳჴჵჶჷჸჹჺჽჾჿẁẃẅẇẉẋẍẏẑẓẕßạảấầẩẫậắằẳẵặẹẻẽếềểễệỉịọỏốồổỗộớờởỡợụủứừửữựỳỵỷỹỻỽỿᾀᾁᾂᾃᾄᾅᾆᾇᾐᾑᾒᾓᾔᾕᾖᾗᾠᾡᾢᾣᾤᾥᾦᾧᾰᾱᾳῃῐῑῠῡῥῳↄⓐⓑⓒⓓⓔⓕⓖⓗⓘⓙⓚⓛⓜⓝⓞⓟⓠⓡⓢⓣⓤⓥⓦⓧⓨⓩⲁⲃⲅⲇⲉⲋⲍⲏⲑⲓⲕⲗⲙⲛⲝⲟⲡⲣⲥⲧⲩⲫⲭⲯⲱⲳⲵⲷⲹⲻⲽⲿⳁⳃⳅⳇⳉⳋⳍⳏⳑⳓⳕⳗⳙⳛⳝⳟⳡⳣⳬⳮⳳꚁꚃꚅꚇꚉꚋꚍꚏꚑꚓꚕꚗꚙꚛꞁꞃꞅꞇꞌꞑꞓꞗꞙꞛꞝꞟꞡꞣꞥꞧꞩʞʇʝꞵꞷꞹꞻꞽꞿꟁꟃꞔʂᶎꟈꟊꟑꟗꟙꟶ"

\* the characters c with c.lower() != c whose lower-case form a string of
\* the model cannot hold
NoLowerChars ==
    "ƁƆƉƊƏƐƓƔƖƗƜƝƟϽϾϿႠႡႢႣႤႥႦႧႨႩႪႫႬႭႮႯႰႱႲႳႴႵႶႷႸႹႺႻႼႽႾႿჀჁჂჃჄჅჇჍᎠᎡᎢᎣᎤᎥᎦᎧᎨᎩᎪᎫᎬᎭᎮᎯᾺΆῈΈῊΉῚΊῪΎῸΌῺΏꞍꞪꞫꞬꞭꞮꞳ"

\* the cased characters that are not case-ignorable, and the case-ignorable
\* characters (str.lower() looks at them around a capital sigma)
CasedChars ==
    "ABCDEFGHIJKLMNOPQRSTUVWXYZabcdefghijklmnopqrstuvwxyzªµºÀÁÂÃÄÅÆÇÈÉÊËÌÍÎÏÐÑÒÓÔÕÖØÙÚÛÜÝÞßàáâãäåæçèéêëìíîïðñòóôõöøùúûüýþÿƀƁƂƃƄƅƆƇƈƉƊƋƌƍƎƏƐƑƒƓƔƕƖƗƘƙƚƛƜƝƞƟƠơƢƣƤƥƦƧƨƩƪƫƬƭƮƯưƱƲƳƴƵƶƷƸƹƺƼƽƾƿǄǅǆǇǈǉǊǋǌǍǎǏǐǑǒǓǔǕǖǗǘǙǚǛǜǝǞǟǠǡǢǣǤǥǦǧǨǩǪǫǬǭǮǯǰǱǲǳǴǵǶǷǸǹǺǻǼǽǾǿʀʁʂʃʄʅʆʇʈʉʊʋʌʍʎʏʐʑʒʓʕʖʗʘʙʚʛʜʝʞʟʠʡʢʣʤʥʦʧʨʩʪʫʬʭʮʯΆΈΉΊΌΎΏΐΑΒΓΔΕΖΗΘΙΚΛΜΝΞΟΠΡΣΤΥΦΧΨΩΪΫάέήίΰαβγδεζηθικλμνξοπρςστυφχψωϊϋόύώϏϐϑϒϓϔϕϖϗϘϙϚϛϜϝϞϟϠϡϢϣϤϥϦϧϨϩϪϫϬϭϮϯϰϱϲϳϴϵϷϸϹϺϻϼϽϾϿҀҁҊҋҌҍҎҏҐґҒғҔҕҖҗҘҙҚқҜҝҞҟҠҡҢңҤҥҦҧҨҩҪҫҬҭҮүҰұҲҳҴҵҶҷҸҹҺһҼҽҾҿӀӁӂӃӄӅӆӇӈӉӊӋӌӍӎӏӐӑӒӓӔӕӖӗӘәӚӛӜӝӞӟӠӡӢӣӤӥӦӧӨөӪӫӬӭӮӯӰӱӲӳӴӵӶӷӸӹӺӻӼӽӾӿրցւփքօֆևֈႠႡႢႣႤႥႦႧႨႩႪႫႬႭႮႯႰႱႲႳႴႵႶႷႸႹႺႻႼႽႾႿჀჁჂჃჄჅჇჍაბგდევზთიკლმნოპჟრსტუფქღყშჩცძწჭხჯჰჱჲჳჴჵჶჷჸჹჺჽჾჿᎠᎡᎢᎣᎤᎥᎦᎧᎨᎩᎪᎫᎬᎭᎮᎯᎰᎱᎲᎳᎴᎵᎶᎷᎸᎹᎺᎻᎼᎽᎾᎿᏀᏁᏂᏃᏄᏅᏆᏇᏈᏉᏊᏋᏌᏍᏎᏏᏐᏑᏒᏓᏔᏕᏖᏗᏘᏙᏚᏛᏜᏝᏞᏟᏠᏡᏢᏣᏤᏥᏦᏧᏨᏩᏪᏫᏬᏭᏮᏯᏰᏱᏲᏳᏴᏵᏸᏹᏺᏻᏼᏽᲀᲁᲂᲃᲄᲅᲆᲇᲈᲐᲑᲒᲓᲔᲕᲖᲗᲘᲙᲚᲛᲜᲝᲞᲟᲠᲡᲢᲣᲤᲥᲦᲧᲨᲩᲪᲫᲬᲭᲮᲯᲰᲱᲲᲳᲴᲵᲶᲷᲸᲹᲺᲽᲾᲿᶀᶁᶂᶃᶄᶅᶆᶇᶈᶉᶊᶋᶌᶍᶎᶏᶐᶑᶒᶓᶔᶕᶖᶗᶘᶙᶚẀẁẂẃẄẅẆẇẈẉẊẋẌẍẎẏẐẑẒẓẔẕẖẗẘẙẚẛẜẝẞẟẠạẢảẤấẦầẨẩẪẫẬậẮắẰằẲẳẴẵẶặẸẹẺẻẼẽẾếỀềỂểỄễỆệỈỉỊịỌọỎỏỐốỒồỔổỖỗỘộỚớỜờỞởỠỡỢợỤụỦủỨứỪừỬửỮữỰựỲỳỴỵỶỷỸỹỺỻỼỽỾỿᾀᾁᾂᾃᾄᾅᾆᾇᾈᾉᾊᾋᾌᾍᾎᾏᾐᾑᾒᾓᾔᾕᾖᾗᾘᾙᾚᾛᾜᾝᾞᾟᾠᾡᾢᾣᾤᾥᾦᾧᾨᾩᾪᾫᾬᾭᾮᾯᾰᾱᾲᾳᾴᾶᾷᾸᾹᾺΆᾼιῂῃῄῆῇῈΈῊΉῌῐῑῒΐῖῗῘῙῚΊῠῡῢΰῤῥῦῧῨῩῪΎῬῲῳῴῶῷῸΌῺΏῼↃↄⒶⒷⒸⒹⒺⒻⒼⒽⒾⒿⓀⓁⓂⓃⓄⓅⓆⓇⓈⓉⓊⓋⓌⓍⓎⓏⓐⓑⓒⓓⓔⓕⓖⓗⓘⓙⓚⓛⓜⓝⓞⓟⓠⓡⓢⓣⓤⓥⓦⓧⓨⓩⲀⲁⲂⲃⲄⲅⲆⲇⲈⲉⲊⲋⲌⲍⲎⲏⲐⲑⲒⲓⲔⲕⲖⲗⲘⲙⲚⲛⲜⲝⲞⲟⲠⲡⲢⲣⲤⲥⲦⲧⲨⲩⲪⲫⲬⲭⲮⲯⲰⲱⲲⲳⲴⲵⲶⲷⲸⲹⲺⲻⲼⲽⲾⲿⳀⳁⳂⳃⳄⳅⳆⳇⳈⳉⳊⳋⳌⳍⳎⳏⳐⳑⳒⳓⳔⳕⳖⳗⳘⳙⳚⳛⳜⳝⳞⳟⳠⳡⳢⳣⳤⳫⳬⳭⳮⳲⳳꚀꚁꚂꚃꚄꚅꚆꚇꚈꚉꚊꚋꚌꚍꚎꚏꚐꚑꚒꚓꚔꚕꚖꚗꚘꚙꚚꚛꞀꞁꞂꞃꞄꞅꞆꞇꞋꞌꞍꞎꞐꞑꞒꞓꞔꞕꞖꞗꞘꞙꞚꞛꞜꞝꞞꞟꞠꞡꞢꞣꞤꞥꞦꞧꞨꞩꞪꞫꞬꞭꞮꞯꞰꞱꞲꞳꞴꞵꞶꞷꞸꞹꞺꞻꞼꞽꞾꞿꟀꟁꟂꟃꟄꟅꟆꟇꟈꟉꟊꟐꟑꟓꟕꟖꟗꟘꟙꟵꟶꟺꮀꮁꮂꮃꮄꮅꮆꮇꮈꮉꮊꮋꮌꮍꮎꮏꮐꮑꮒꮓꮔꮕꮖꮗꮘꮙꮚꮛꮜꮝꮞꮟꮠꮡꮢꮣꮤꮥꮦꮧꮨꮩꮪꮫꮬꮭꮮꮯꮰꮱꮲꮳꮴꮵꮶꮷꮸꮹꮺꮻꮼꮽꮾꮿ"

CaseIgnorableChars ==
    "'.:^" \o SubSeq("`'", 1, 1) \o "¨­¯´·¸ʰʱʲʳʴʵʶʷʸʹʺʻʼʽʾʿˀˁ˂˃˄˅ˆˇˈˉˊˋˌˍˎˏːˑ˒˓˔˕˖˗˘˙˚˛˜˝˞˟ˠˡˢˣˤ˥˦˧˨˩˪˫ˬ˭ˮ˯˰˱˲˳˴˵˶˷˸˹˺˻˼˽˾˿΄΅·҃҄҅҆҇҈҉ְֱֲֳִֵֶַָׇֹֺֻּֽֿׁׂ֑֖֛֢֣֤֥֦֧֪ׅ֚֭֮֒֓֔֕֗֘֙֜֝֞֟֠֡֨֩֫֬֯ׄ״ۖۗۘۙۚۛۜ۝ۣ۟۠ۡۢۤۥۦ۪ۭۧۨ۫۬ަާިީުޫެޭޮޯް߲߫߬߭߮߯߰߱߳ߴߵߺ߽࢈࢐࢑࢙࢚࢛࢘࢜࢝࢞࢟ࣉ࣏࣐࣑࣒࣓࣊࣋࣌࣍࣎ࣔࣕࣖࣗࣘࣙࣚࣛࣜࣝࣞࣟ࣠࣡࣢ࣰࣱࣲࣣࣦࣩ࣭࣮࣯ࣶࣹࣺࣤࣥࣧࣨ࣪࣫࣬ࣳࣴࣵࣷࣸࣻࣼࣽࣾࣿঁ়ুূৃৄ্ৢৣ৾ઁં઼ુૂૃૄૅેૈ્ૢૣૺૻૼ૽૾૿ஂீ்ಁ಼ಿೆೌ್ೢೣඁ්ිීුූັິີຶື຺ຸູົຼໆ່້໊໋໌ໍ྄ཱྀྀྂྃ྆྇ྍྎྏྐྑྒྒྷྔྕྖྗྙྚྛྜྜྷྞྟྠྡྡྷྣྤྥྦྦྷྨྩྪྫྫྷྭྮྯྰྱྲླྴྵྶྷྸྐྵྺྻྼ࿆ႂႅႆႍႝჼ឴឵ិីឹឺុូួំ៉៊់៌៍៎៏័៑្៓ៗ៝ᢅᢆᢩᪧ᪵᪶᪷᪸᪹᪺᪽᪰᪱᪲᪳᪴᪻᪼᪾ᪿᫀ᫃᫄᫊᫁᫂᫅᫆᫇᫈᫉᫋ᫌᫍᫎᮀᮁᮢᮣᮤᮥᮨᮩ᮫ᮬᮭ᯦ᯨᯩᯭᯯᯰᯱ᳔᳢᳣᳤᳥᳦᳧᳨᳕᳖᳗᳘᳙᳜᳝᳞᳟᳭᳐᳑᳒᳚᳛᳠᳴᳸᳹ᶛᶜᶝᶞᶟᶠᶡᶢᶣᶤᶥᶦᶧᶨᶩᶪᶫᶬᶭᶮᶯᶰᶱᶲᶳᶴᶵᶶᶷᶸᶹᶺᶻᶼᶽᶾᶿ᷐᷎᷺᷂᷊᷏᷹᷽᷿᷷᷸᷀᷁᷃᷄᷅᷆᷇᷈᷉᷋᷌᷑᷒ᷓᷔᷕᷖᷗᷘᷙᷚᷛᷜᷝᷞᷟᷠᷡᷢᷣᷤᷥᷦᷧᷨᷩᷪᷫᷬᷭᷮᷯᷰᷱᷲᷳᷴ᷵᷻᷾᷶᷼᷍᾽᾿῀῁῍῎῏῝῞῟῭΅`´῾ₐₑₒₓₔₕₖₗₘₙₚₛₜ⃒⃓⃘⃙⃚⃐⃑⃔⃕⃖⃗⃛⃜⃝⃞⃟⃠⃡⃢⃣⃤⃥⃦⃪⃫゙゚⃨⃬⃭⃮⃯⃧⃩⃰⳯⳰⳱ⷠⷡⷢⷣⷤⷥⷦⷧⷨⷩⷪⷫⷬⷭⷮⷯⷰⷱⷲⷳⷴⷵⷶⷷⷸⷹⷺⷻⷼⷽⷾⷿ゛゜ゝゞーヽヾꓸꓹꓺꓻꓼꓽꚜꚝꚞꚟ꛰꛱ꞈ꞉꞊ꟲꟳꟴꟸꟹ꣄ꣅ꣠꣡꣢꣣꣤꣥꣦꣧꣨꣩꣪꣫꣬꣭꣮꣯꣰꣱ꣿꦀꦁꦂ꦳ꦶꦷꦸꦹꦼꦽꧏꧥꧦꪴꪰꪲꪳꪷꪸꪾ꪿꫁ꫝꫬꫭꫳꫴ꫶ꯥꯨ꯭﮲﮳﮴﮵﮶﮷﮸﮹﮺﮻﮼﮽﮾﮿﯀﯁﯂﻿ﾞﾟ￣￹￺￻"

\* the characters c with not c.isprintable()
NonPrintableChars ==
    "\t\n\f\r ­΀΁΂΃΋΍΢֋֌֐׈׉׊׋׌׍׎׏׫׬׭׮׵׶׷׸׹׺׻׼׽׾׿۝޲޳޴޵޶޷޸޹޺޻޼޽޾޿߻߼࢏࢐࢑࢒࢓࢔࢕࢖ࢗ࣢঄঍঎঑঒঩঱঳঴঵঺঻৅৆৉৊৏৐৑৒৓৔৕৖৘৙৚৛৞৤৥৿઀઄઎઒઩઱઴઺઻૆૊૎૏૑૒૓૔૕૖૗૘૙૚૛૜૝૞૟૤૥૲૳૴૵૶૷૸஀஁஄஋஌஍஑஖஗஘஛஝஠஡஢஥஦஧஫஬஭஺஻஼஽௃௄௅௉௎௏௑௒௓௔௕௖௘௙௚௛௜௝௞௟௠௡௢௣௤௥௻௼௽௾௿಍಑಩಴಺಻೅೉೎೏೐೑೒೓೔೗೘೙೚೛೜೟೤೥೰ೳ೴೵೶೷೸೹೺೻೼೽೾೿඀඄඗඘඙඲඼඾඿෇෈෉෋෌෍෎෕෗෠෡෢෣෤෥෰෱෵෶෷෸෹෺෻෼෽෾෿຀຃຅຋຤຦຾຿໅໇໎໏໚໛໠໡໢໣໤໥໦໧໨໩໪໫໬໭໮໯໰໱໲໳໴໵໶໷໸໹໺໻໼໽໾໿྘྽࿍࿛࿜࿝࿞࿟࿠࿡࿢࿣࿤࿥࿦࿧࿨࿩࿪࿫࿬࿭࿮࿯࿰࿱࿲࿳࿴࿵࿶࿷࿸࿹࿺࿻࿼࿽࿾࿿჆჈჉჊჋჌჎჏኉኎኏኱኶኷኿዁዆዇዗᎚᎛᎜᎝᎞᎟᏶᏷᏾᏿ ᚝᚞᚟᛹᛺᛻᛼᛽᛾᛿៞៟៪៫៬៭៮៯៺៻៼៽៾៿᢫᢬᢭᢮᢯᣶᣷᣸᣹᣺᣻᣼᣽᣾᣿᦬᦭᦮᦯᧊᧋᧌᧍᧎᧏᧛᧜᧝᪊᪋᪌᪍᪎᪏᪚᪛᪜᪝᪞᪟᪮᪯᫏᫐᫑᫒᫓᫔᫕᫖᫗᫘᫙᫚᫛᫜᫝᫞᫟᫠᫡᫢᫣᫤᫥᫦᫧᫨᫩᫪᫫᫬᫭᫮᫯᫰᫱᫲᫳᫴᫵᫶᫷᫸᫹᫺᫻᫼᫽᫾᫿᯴᯵᯶᯷᯸᯹᯺᯻Ᲊᲊ᲋᲌᲍᲎᲏᲻᲼᳈᳉᳊᳋᳌᳍᳎᳏᳻᳼᳽᳾᳿᾵῅῔῕῜῰῱῵῿₏₝₞₟⃁⃂⃃⃄⃅⃆⃇⃈⃉⃊⃋⃌⃍⃎⃏⃱⃲⃳⃴⃵⃶⃷⃸⃹⃺⃻⃼⃽⃾⃿↌↍↎↏⮖⳴⳵⳶⳷⳸⶗⶘⶙⶚⶛⶜⶝⶞⶟⶧⶯⶷⶿⷇⷏⷗⷟⺚⻴⻵⻶⻷⻸⻹⻺⻻⻼⻽⻾⻿⿖⿗⿘⿙⿚⿛⿜⿝⿞⿟⿠⿡⿢⿣⿤⿥⿦⿧⿨⿩⿪⿫⿬⿭⿮⿯⿼⿽⿾⿿゗゘㆏㇤㇥㇦㇧㇨㇩㇪㇫㇬㇭㇮㇯꒍꒎꒏꓇꓈꓉꓊꓋꓌꓍꓎꓏꛸꛹꛺꛻꛼꛽꛾꛿ꟋꟌꟍ꟎꟏꟒꟔ꟚꟛꟜ꟝꟞꟟꟠꟡꟢꟣꟤꟥꟦꟧꟨꟩꟪꟫꟬꟭꟮꟯꟰꟱꣆꣇꣈꣉꣊꣋꣌꣍꣚꣛꣜꣝꣞꣟꧎꧚꧛꧜꧝꧿꫃꫄꫅꫆꫇꫈꫉꫊꫋꫌꫍꫎꫏꫐꫑꫒꫓꫔꫕꫖꫗꫘꫙꫚꫷꫸꫹꫺꫻꫼꫽꫾꫿꯮꯯꯺꯻꯼꯽꯾꯿힤힥힦힧힨힩힪힫힬힭힮힯퟇퟈퟉퟊퟼퟽퟾퟿﫚﫛﫜﫝﫞﫟﫠﫡﫢﫣﫤﫥﫦﫧﫨﫩﫪﫫﫬﫭﫮﫯﫰﫱﫲﫳﫴﫵﫶﫷﫸﫹﫺﫻﫼﫽﫾﫿﯃﯄﯅﯆﯇﯈﯉﯊﯋﯌﯍﯎﯏﯐﯑﯒﶐﶑﷈﷉﷊﷋﷌﷍﷎﷐﷑﷒﷓﷔﷕﷖﷗﷘﷙﷚﷛﷜﷝﷞﷟﷠﷡﷢﷣﷤﷥﷦﷧﷨﷩﷪﷫﷬﷭﷮﷯﻽﻾﻿﾿￀￁￈￉￐￑￘￙￝￞￟￧￯￰￱￲￳￴￵￶￷￸￹￺￻￾￿"

RECURSIVE Rep(_, _)
Rep(c, n) == IF n = 0 THEN <<>> ELSE <<c>> \o Rep(c, n - 1)

RECURSIVE lstrip(_)
lstrip(s) == IF s # <<>> /\ Head(s) \in Whitespace THEN lstrip(Tail(s)) ELSE s

RECURSIVE rstrip(_)
rstrip(s) ==
    IF s # <<>> /\ s[Len(s)] \in Whitespace
    THEN rstrip(SubSeq(s, 1, Len(s) - 1))
    ELSE s

\* str.strip()
strip(s) == rstrip(lstrip(s))

(***************************************************************************)
(* analysis/prompts.py                                                     *)
(***************************************************************************)
PresetTypes == {"Component Verification", "Pin Configuration Check",
                "Power Supply Analysis", "Design Compliance",
                "Missing Components"}

\* the keys of PROMPT_TEMPLATES; each value is a str (the template text)
PROMPT_TEMPLATES == [t \in PresetTypes \cup {"Custom Query"} |->
                        [py |-> "str", val |-> "template: " \o t]]

\* get_prompt_template with the first template as the fallback
get_prompt_template_default_first(analysis_type) ==
    IF analysis_type \in DOMAIN PROMPT_TEMPLATES
    THEN PROMPT_TEMPLATES[analysis_type]
    ELSE PROMPT_TEMPLATES["Component Verification"]

\* PROMPT_TEMPLATES.get(analysis_type, PROMPT_TEMPLATES["Custom Query"])
get_prompt_template(analysis_type) ==
    IF analysis_type \in DOMAIN PROMPT_TEMPLATES
    THEN PROMPT_TEMPLATES[analysis_type]
    ELSE PROMPT_TEMPLATES["Custom Query"]

(***************************************************************************)
(* Inputs of the model.                                                    *)
(***************************************************************************)
Paths == {"work/a.png", "b.png"}

\* os.path.basename on the paths of the model
basename(path) == IF path = "work/a.png" THEN "a.png" ELSE path

\* analysis types a caller passes: the recognized ones and two that are not
AnalysisTypes == PresetTypes \cup {"Custom Query", "", "Thermal Review"}

EmptyDict == [k \in {} |-> PyNone]
PyStr(s) == [py |-> "str", val |-> s]
PyList(items) == [py |-> "list", items |-> items]
\* the dict {k1: v1, k2: v2, ...} of the items <<k1, v1>>, <<k2, v2>>, ...
\* with distinct keys: its keys in insertion order, and the value of each
PyDict(items) ==
    [py |-> "dict",
     keys |-> [i \in 1..Len(items) |-> items[i][1]],
     d |-> [k \in {items[i][1] : i \in 1..Len(items)} |->
              items[CHOOSE i \in 1..Len(items) : items[i][1] = k][2]]]
PyInt(n) == [py |-> "int", val |-> n]
PyBool(b) == [py |-> "bool", val |-> b]

\* datasheet_data values a caller passes
DS_Empty == PyDict(<<>>)
DS_Known == PyDict(<< <<"component_name", PyStr("LM7805")>> >>)
DS_Unknown == PyDict(<< <<"component_name", PyStr("Unknown")>> >>)
DS_NoName == PyDict(<< <<"features", PyList(<<PyStr("Low noise")>>)>> >>)
DS_BadFeatures == PyDict(<< <<"component_name", PyStr("LM7805")>>,
                            <<"features", PyList(<<PyInt(7)>>)>> >>)
DS_Text == PyStr("LM7805 datasheet")
DS_List == PyList(<<PyStr("LM7805")>>)
Datasheets == {PyNone, DS_Empty, DS_Known, DS_Unknown, DS_NoName,
               DS_BadFeatures, DS_Text, DS_List}

\* Python truth value of a modelled value
Truthy(v) ==
    CASE v.py = "NoneType" -> FALSE
      [] v.py = "str" -> v.val # ""
      [] v.py = "text" -> v.val # <<>>
      [] v.py = "int" -> v.val # 0
      [] v.py = "bool" -> v.val
      [] v.py = "list" -> v.items # <<>>
      [] v.py = "dict" -> DOMAIN v.d # {}
      [] OTHER -> TRUE

\* dict.get(key, default)
DictGet(v, key, default) == IF key \in DOMAIN v.d THEN v.d[key] ELSE default

Exc(type, msg) == [type |-> type, msg |-> msg]
Ok(value) == [ok |-> TRUE, value |-> value]
Raise(type, msg) == [ok |-> FALSE, exc |-> Exc(type, msg)]

\* os.path.exists
exists(path) == fs[path] # PyNone

\* the least element of a non-empty set of integers
Min(S) == CHOOSE x \in S : \A y \in S : x <= y

\* word in s
Contains(s, word) ==
    \E i \in 1..(Len(s) - Len(word) + 1) : SubSeq(s, i, i + Len(word) - 1) = word

\* any(word in s for word in words)
ContainsAny(s, words) == \E word \in words : Contains(s, word)

RECURSIVE JoinStr(_, _)
\* sep.join(parts) for a sequence of strings
JoinStr(parts, sep) ==
    IF parts = <<>> THEN ""
    ELSE IF Len(parts) = 1 THEN parts[1]
    ELSE parts[1] \o sep \o JoinStr(Tail(parts), sep)

\* seq[:n]
Take(seq, n) == SubSeq(seq, 1, IF Len(seq) < n THEN Len(seq) ELSE n)

HexDigits == "0123456789abcdef"

RECURSIVE Hex(_, _)
\* format(n, '0<width>x')
Hex(n, width) ==
    IF width = 0 THEN ""
    ELSE Hex(n \div 16, width - 1) \o At(HexDigits, (n % 16) + 1)

NonPrintable == CharSet(NonPrintableChars)

\* what repr(s) puts for the character c of s
repr_char(c, quote) ==
    CASE c = "\\" -> "\\\\"
      [] c = quote -> "\\" \o quote
      [] c = "\t" -> "\\t"
      [] c = "\n" -> "\\n"
      [] c = "\r" -> "\\r"
      [] c \in NonPrintable ->
            IF ord(c) < 256 THEN "\\x" \o Hex(ord(c), 2)
            ELSE "\\u" \o Hex(ord(c), 4)
      [] OTHER -> c

\* repr(s) of a str: quoted with ' unless s holds a ' and no "; the
\* backslash, the quote, tab, newline, return and the characters that are
\* not printable are escaped
repr_str(s) ==
    Let(IF Contains(s, "'") /\ ~Contains(s, "\"") THEN "\"" ELSE "'",
        LAMBDA quote :
            quote \o Flat([i \in 1..Len(s) |-> repr_char(SubSeq(s, i, i), quote)])
                  \o quote)

\* whether the str a comes before the str b (a < b: by code points)
StrLess(a, b) ==
    \E i \in 1..Len(b) :
        /\ \A j \in 1..(i - 1) : j <= Len(a) /\ SubSeq(a, j, j) = SubSeq(b, j, j)
        /\ \/ i = Len(a) + 1
           \/ i <= Len(a) /\ ord(SubSeq(a, i, i)) < ord(SubSeq(b, i, i))

\* sorted(keys) for a set of str
SortedKeys(keys) ==
    [k \in 1..Cardinality(keys) |->
        CHOOSE x \in keys : Cardinality({y \in keys : StrLess(y, x)}) = k - 1]

RECURSIVE py_repr(_)
\* repr(v); the keys of a dict are taken in insertion order
py_repr(v) ==
    CASE v.py = "NoneType" -> "None"
      [] v.py = "str" -> repr_str(v.val)
      [] v.py = "text" -> repr_str(Flat(v.val))
      [] v.py = "int" -> ToString(v.val)
      [] v.py = "bool" -> IF v.val THEN "True" ELSE "False"
      [] v.py = "list" ->
            "[" \o JoinStr([i \in 1..Len(v.items) |-> py_repr(v.items[i])], ", ") \o "]"
      [] v.py = "dict" ->
            "{" \o JoinStr([i \in 1..Len(v.keys) |->
                              repr_str(v.keys[i]) \o ": " \o py_repr(v.d[v.keys[i]])],
                           ", ") \o "}"

\* str(v), which is also what an f-string puts for {v}
py_str(v) ==
    CASE v.py = "str" -> v.val
      [] v.py = "text" -> Flat(v.val)
      [] OTHER -> py_repr(v)

\* type(v).__name__
type_name(v) == IF v.py = "text" THEN "str" ELSE v.py

(***************************************************************************)
(* core/context_builder.py                                                 *)
(***************************************************************************)
\* ContextBuilder._create_datasheet_summary; ', '.join raises TypeError on
\* the first item of features[:3] that is not a str
_create_datasheet_summary(datasheet_data) ==
    LET component_name == DictGet(datasheet_data, "component_name", PyNone)
        features == DictGet(datasheet_data, "features", PyList(<<>>))
        operating_conditions == DictGet(datasheet_data, "operating_conditions", PyNone)
        package_info == DictGet(datasheet_data, "package_info", PyNone)
        first3 == IF features.py = "list" THEN Take(features.items, 3) ELSE <<>>
        not_str == {i \in 1..Len(first3) : type_name(first3[i]) # "str"}
        name_part == IF Truthy(component_name) /\ component_name # PyStr("Unknown")
                     THEN <<"Component: " \o py_str(component_name)>> ELSE <<>>
        feature_part ==
            IF Truthy(features) /\ features.py = "list"
            THEN <<"Features: " \o JoinStr([i \in 1..Len(first3) |-> py_str(first3[i])], ", ")>>
            ELSE IF Truthy(features) /\ type_name(features) = "str"
            THEN <<"Features: " \o Take(py_str(features), 100)>>
            ELSE <<>>
        cond_part == IF Truthy(operating_conditions)
                     THEN <<"Has operating conditions specifications">> ELSE <<>>
        package_part ==
            IF Truthy(package_info) /\ package_info # PyStr("Unknown")
               /\ package_info # PyStr("Package information not found")
            THEN <<"Package: " \o py_str(package_info)>> ELSE <<>>
    IN  IF not_str # {}
        THEN LET i == CHOOSE k \in not_str : \A j \in not_str : k <= j IN
             Raise("TypeError", "sequence item " \o ToString(i - 1)
                                \o ": expected str instance, "
                                \o type_name(first3[i]) \o " found")
        ELSE Let(name_part \o feature_part \o cond_part \o package_part,
                 LAMBDA summary_parts :
                    Ok(IF summary_parts # <<>> THEN JoinStr(summary_parts, " | ")
                       ELSE "Limited datasheet information available"))

\* build_analysis_context without the isinstance(datasheet_data, dict) check:
\* a value that is not a dict and is not empty has no get
build_analysis_context_no_isinstance(schematic_path, datasheet_data_in, query_type, custom_query) ==
    LET datasheet_data == IF datasheet_data_in.py = "dict" THEN datasheet_data_in
                          ELSE PyDict(<<>>)
        has_datasheet == Truthy(datasheet_data)
                         /\ DictGet(datasheet_data, "component_name", PyNone) # PyStr("Unknown")
        summary == _create_datasheet_summary(datasheet_data)
        datasheet == IF Truthy(datasheet_data)
                     THEN [component_name |->
                               DictGet(datasheet_data, "component_name",
                                       PyStr("Unknown Component")),
                           summary |-> summary.value]
                     ELSE PyNone
        query == IF Truthy(custom_query) THEN custom_query.val
                 ELSE "Please analyze this schematic for any issues or recommendations."
        prompt == IF query_type = "Custom Query"
                  THEN [kind |-> "custom", body |-> query, with_datasheet |-> has_datasheet]
                  ELSE [kind |-> "preset", body |-> get_prompt_template(query_type).val,
                        with_datasheet |-> has_datasheet]
    IN  IF datasheet_data_in.py # "dict" /\ Truthy(datasheet_data_in)
        THEN Raise("AttributeError", "'" \o datasheet_data_in.py
                                     \o "' object has no attribute 'get'")
        ELSE IF Truthy(datasheet_data) /\ ~summary.ok THEN summary
        ELSE Ok([schematic_path |-> schematic_path,
                 query_type |-> query_type,
                 has_datasheet |-> has_datasheet,
                 schematic |-> [path |-> schematic_path,
                                filename |-> basename(schematic_path)],
                 datasheet |-> datasheet,
                 prompt |-> prompt,
                 image_data |-> PyNone])

\* ContextBuilder.build_analysis_context (the prompt is kept as its parts)
build_analysis_context(schematic_path, datasheet_data_in, query_type, custom_query) ==
    LET datasheet_data == IF datasheet_data_in.py = "dict" THEN datasheet_data_in
                          ELSE PyDict(<<>>)
        has_datasheet == Truthy(datasheet_data)
                         /\ DictGet(datasheet_data, "component_name", PyNone) # PyStr("Unknown")
        query == IF Truthy(custom_query) THEN custom_query.val
                 ELSE "Please analyze this schematic for any issues or recommendations."
        prompt == IF query_type = "Custom Query"
                  THEN [kind |-> "custom", body |-> query, with_datasheet |-> has_datasheet]
                  ELSE [kind |-> "preset", body |-> get_prompt_template(query_type).val,
                        with_datasheet |-> has_datasheet]
    IN  Let(_create_datasheet_summary(datasheet_data), LAMBDA summary :
            IF Truthy(datasheet_data) /\ ~summary.ok THEN summary
            ELSE Ok([schematic_path |-> schematic_path,
                     query_type |-> query_type,
                     has_datasheet |-> has_datasheet,
                     schematic |-> [path |-> schematic_path,
                                    filename |-> basename(schematic_path)],
                     datasheet |->
                        IF Truthy(datasheet_data)
                        THEN [component_name |->
                                  DictGet(datasheet_data, "component_name",
                                          PyStr("Unknown Component")),
                              summary |-> summary.value]
                        ELSE PyNone,
                     prompt |-> prompt,
                     image_data |-> PyNone]))

(***************************************************************************)
(* core/image_handler.py                                                   *)
(***************************************************************************)
\* ImageHandler.create_analysis_package: every failure of loading or encoding
\* the image is caught and reported as ready = False
create_analysis_package(image_path) ==
    IF ~exists(image_path)
    THEN [original_path |-> image_path, ready |-> FALSE,
          error |-> "Image file not found: " \o image_path]
    ELSE IF ~fs[image_path].image_ok
    THEN [original_path |-> image_path, ready |-> FALSE,
          error |-> "Failed to load image: cannot identify image file "
                    \o repr_str(image_path)]
    ELSE [original_path |-> image_path, ready |-> TRUE,
          base64_image |-> "base64:" \o image_path]

(***************************************************************************)
(* core/ollama_client.py                                                   *)
(***************************************************************************)
\* a response text: a str kept as its characters
PyText(chars) == [py |-> "text", val |-> chars]

ResponseTexts ==
    {PyText(Rep(" ", l) \o Rep("x", n) \o Rep("\n", t)) :
        l \in 0..MaxPad, n \in 0..MaxBody, t \in 0..MaxPad}
    \cup {PyText(Rep("x", 5) \o <<" ">> \o Rep("x", 5)),
          PyText(Rep("x", 5) \o <<" ">> \o Rep("x", 4))}

\* config.OLLAMA_MODEL
OLLAMA_MODEL == "llava-llama3:8b"

\* s.split(sep)[0]
split_first(s, sep) ==
    IF Contains(s, sep)
    THEN Take(s, Min({i \in 1..Len(s) : SubSeq(s, i, i) = sep}) - 1)
    ELSE s

\* s.startswith(prefix)
startswith(s, prefix) == Take(s, Len(prefix)) = prefix

\* an entry of the model list of /api/tags
Model(name) == PyDict(<< <<"name", name>> >>)

\* what GET /api/tags does: the transport fails, or it answers with an error
\* status, or with 200 and a body that is JSON or is not
TagsOutcomes ==
    {[kind |-> "timeout"], [kind |-> "connection_error"],
     [kind |-> "http_error", status_code |-> 500, text |-> "internal error"],
     [kind |-> "invalid_json",
      error |-> Exc("JSONDecodeError", "Expecting value: line 1 column 1 (char 0)")]}
    \cup {[kind |-> "json", body |-> body] :
            body \in {PyDict(<< <<"models", PyList(models)>> >>) :
                        models \in {<<>>,
                                    <<Model(PyStr("llava-llama3:8b"))>>,
                                    <<Model(PyStr("mistral:7b")),
                                      Model(PyStr("llava-llama3:latest"))>>,
                                    <<Model(PyStr("registry/llava-llama3:8b-q4"))>>,
                                    <<Model(PyStr("mistral:7b")), Model(PyStr("llava:13b"))>>,
                                    <<Model(PyStr("llava-llama3:8b")), Model(PyNone)>>,
                                    <<Model(PyNone), Model(PyStr("llava-llama3:8b"))>>,
                                    <<PyDict(<<>>), Model(PyStr(""))>>,
                                    <<Model(PyList(<<PyStr("llava-llama3:8b")>>))>>,
                                    <<PyStr("llava-llama3:8b")>>}}
                \cup {PyDict(<<>>), PyDict(<< <<"models", PyNone>> >>),
                      PyList(<<>>)}}

\* OllamaClient.check_connection, `tags` being what GET /api/tags does
check_connection(tags) ==
    IF tags.kind # "json" \/ tags.body.py # "dict" THEN FALSE
    ELSE LET models == DictGet(tags.body, "models", PyList(<<>>)) IN
         IF models.py # "list" THEN FALSE
         ELSE IF \E i \in 1..Len(models.items) : models.items[i].py # "dict" THEN FALSE
         ELSE LET model_names == [i \in 1..Len(models.items) |->
                                    DictGet(models.items[i], "name", PyStr(""))]
                  \* self.model in name or name.startswith(...): an
                  \* answer, or "raise" for a name that has no `in` or no
                  \* startswith
                  available(name) ==
                      CASE name.py = "str" ->
                            IF \/ Contains(name.val, OLLAMA_MODEL)
                               \/ startswith(name.val, split_first(OLLAMA_MODEL, ":"))
                            THEN "yes" ELSE "no"
                        [] name.py = "list" ->
                            IF \E i \in 1..Len(name.items) : name.items[i] = PyStr(OLLAMA_MODEL)
                            THEN "yes" ELSE "raise"
                        [] name.py = "dict" ->
                            IF OLLAMA_MODEL \in DOMAIN name.d THEN "yes" ELSE "raise"
                        [] OTHER -> "raise"
                  stops == {i \in 1..Len(model_names) : available(model_names[i]) # "no"}
              IN  /\ stops # {}
                  /\ available(model_names[Min(stops)]) = "yes"

\* the JSON bodies of a 200 answer: an object with the generated text, or
\* with a 'response' that is no text, or without one, or no object at all
\* (the last one an array that holds an object with the keys b and a)
JsonBodies ==
    {PyDict(<< <<"response", t>> >>) :
        t \in ResponseTexts \cup {PyNone, PyInt(7), PyList(<<PyText(<<"a">>)>>)}}
    \cup {PyDict(<< <<"error", PyStr("model not loaded")>> >>),
          PyNone, PyInt(7), PyText(<<"o", "k">>),
          PyList(<<PyText(<<"R", "1">>), PyText(<<"R", "2">>), PyText(<<"R", "3">>)>>),
          PyList(<<PyDict(<< <<"b", PyInt(1)>>, <<"a", PyInt(2)>> >>)>>)}

\* what the endpoint does with one POST: the transport fails, or it answers
\* with an error status, or with 200 and a body that is JSON or is not
GatewayOutcomes ==
    {[kind |-> "timeout"], [kind |-> "connection_error"],
     [kind |-> "http_error", status_code |-> 500, text |-> "internal error"],
     [kind |-> "http_error", status_code |-> 404, text |-> "model 'llava' not found"],
     [kind |-> "invalid_json",
      error |-> Exc("JSONDecodeError", "Expecting value: line 1 column 1 (char 0)")]}
    \cup {[kind |-> "json", body |-> body] : body \in JsonBodies}

\* the lines of a streamed 200 answer: a JSON chunk, a line that is not
\* JSON, a line that is not UTF-8, or an empty line
Chunk(text, done) ==
    [kind |-> "chunk",
     json |-> PyDict(<< <<"response", text>>, <<"done", PyBool(done)>> >>)]
StreamLines ==
    {Chunk(PyText(<<"R", "1">>), FALSE), Chunk(PyText(<<" ", "o", "k">>), TRUE),
     Chunk(PyNone, FALSE),
     [kind |-> "chunk", json |-> PyDict(<< <<"done", PyBool(TRUE)>> >>)],
     [kind |-> "chunk", json |-> PyInt(7)],
     [kind |-> "garbage"], [kind |-> "empty"],
     [kind |-> "undecodable",
      error |-> Exc("UnicodeDecodeError",
                    "'utf-8' codec can't decode byte 0xff in position 0: "
                    \o "invalid start byte")]}

\* what the endpoint does with one POST of stream_generate
StreamOutcomes ==
    {[kind |-> "timeout"], [kind |-> "connection_error"],
     [kind |-> "http_error", status_code |-> 500, text |-> "internal error"]}
    \cup {[kind |-> "stream", lines |-> <<a, b>>] : a, b \in StreamLines}
    \cup {[kind |-> "stream", lines |-> <<>>]}

\* OllamaClient.generate: the value returned or the exception raised, and
\* is_connected afterwards.  With stream the response object is returned;
\* without, response.json(), whose exception is raised again
generate(connected, stream, outcome) ==
    IF ~connected
    THEN [ret |-> Raise("ConnectionError",
                        "Not connected to Ollama. Please check if Ollama is running."),
          connected |-> connected]
    ELSE CASE outcome.kind = "timeout" ->
                [ret |-> Raise("Exception",
                    "Ollama request timed out. Try a shorter prompt or increase timeout."),
                 connected |-> connected]
           [] outcome.kind = "connection_error" ->
                [ret |-> Raise("Exception",
                    "Lost connection to Ollama. Please check if it's still running."),
                 connected |-> FALSE]
           [] outcome.kind = "http_error" ->
                [ret |-> Raise("Exception",
                    "Ollama API error: " \o ToString(outcome.status_code)
                    \o " - " \o outcome.text),
                 connected |-> connected]
           [] stream ->
                [ret |-> Ok([py |-> "Response", outcome |-> outcome]),
                 connected |-> connected]
           [] outcome.kind = "invalid_json" ->
                [ret |-> [ok |-> FALSE, exc |-> outcome.error], connected |-> connected]
           [] outcome.kind = "json" ->
                [ret |-> Ok(outcome.body), connected |-> connected]

\* OllamaClient.parse_response
parse_response(response) ==
    IF response.py = "dict" THEN DictGet(response, "response", PyText(<<>>))
    ELSE IF type_name(response) = "str" THEN response
    ELSE PyText(Chars(py_str(response)))

\* response.iter_lines() of the response object generate returned
iter_lines(response) ==
    CASE response.outcome.kind = "stream" -> response.outcome.lines
      [] response.outcome.kind = "json" ->
            <<[kind |-> "chunk", json |-> response.outcome.body]>>
      [] response.outcome.kind = "invalid_json" -> <<[kind |-> "garbage"]>>

\* the callback a caller passes to stream_generate: none, or one that keeps
\* the text, or one that calls generate of the same client with the text,
\* and lets what generate raises through or does not.  generate is the one
\* method of the client that assigns is_connected after construction
Callbacks == {"none", "keep", "generate", "generate_quiet"}

\* what the endpoint does with the POST of a callback that calls generate:
\* every answer of GatewayOutcomes that makes generate raise, and of those
\* with a JSON body, which generate returns as it is, one that is an object
\* and one that is not
CallbackAnswers ==
    {o \in GatewayOutcomes :
        o.kind = "json" =>
            o.body \in {PyNone,
                        PyDict(<< <<"response", PyText(Rep("x", MinResponseLen + 1))>> >>)}}

\* stream_generate: one pass of the loop over the lines, up to the call of
\* the callback.  An empty line is passed over, and so is a line that is
\* not JSON; line.decode('utf-8') raises on a line that is not UTF-8,
\* chunk.get on a chunk that is no object, full_response += text on a text
\* that is no str
read_line(line, full_response) ==
    IF line.kind \in {"empty", "garbage"} THEN [kind |-> "continue"]
    ELSE IF line.kind = "undecodable" THEN [kind |-> "raise", exc |-> line.error]
    ELSE IF line.json.py # "dict"
    THEN [kind |-> "raise",
          exc |-> Exc("AttributeError", "'" \o type_name(line.json)
                                        \o "' object has no attribute 'get'")]
    ELSE Let(DictGet(line.json, "response", PyText(<<>>)), LAMBDA text :
             IF type_name(text) # "str"
             THEN [kind |-> "raise",
                   exc |-> Exc("TypeError", "can only concatenate str (not \""
                                            \o type_name(text) \o "\") to str")]
             ELSE [kind |-> "text", text |-> text,
                   full_response |-> full_response \o text.val,
                   done |-> Truthy(DictGet(line.json, "done", PyBool(FALSE)))])

\* callback(text) of a callback that calls generate: what the call raises,
\* is_connected afterwards, and what generate did
callback_call(callback, connected, outcome) ==
    Let(generate(connected, FALSE, outcome), LAMBDA g :
        [ret |-> IF callback = "generate_quiet" \/ g.ret.ok THEN Ok(PyNone) ELSE g.ret,
         connected |-> g.connected,
         verdict |-> IF g.ret.ok THEN "returned" ELSE g.ret.exc.msg])

\* OllamaClient.test_connection: bool(text and len(text) > 0), False when
\* anything is raised
test_connection(connected, outcome) ==
    Let(generate(connected, FALSE, outcome), LAMBDA g :
        IF ~g.ret.ok THEN [ret |-> Ok(PyBool(FALSE)), connected |-> g.connected]
        ELSE Let(parse_response(g.ret.value), LAMBDA text :
                 [ret |-> Ok(PyBool(Truthy(text)
                                    /\ type_name(text) \in {"str", "list", "dict"})),
                  connected |-> g.connected]))

(***************************************************************************)
(* analysis/analyzer.py: SchematicAnalyzer                                 *)
(***************************************************************************)
\* validate_analysis_inputs without the os.path.exists check
validate_analysis_inputs_no_file_check(schematic_path, analysis_type, connection_ok) ==
    IF analysis_type \notin (DOMAIN PROMPT_TEMPLATES \cup {"Custom Query"})
    THEN Raise("ValueError", "Invalid analysis type: " \o analysis_type)
    ELSE IF ~connection_ok
    THEN Raise("ConnectionError", "Ollama client is not connected")
    ELSE Ok(PyNone)

\* SchematicAnalyzer.validate_analysis_inputs; connection_ok is what
\* self.ollama_client.check_connection() answers.  get_prompt_template("") is
\* a str, and a str has no keys().
validate_analysis_inputs(schematic_path, analysis_type, connection_ok) ==
    IF ~exists(schematic_path)
    THEN Raise("FileNotFoundError", "Schematic file not found: " \o schematic_path)
    ELSE LET templates == get_prompt_template("") IN
         IF templates.py # "dict"
         THEN Raise("AttributeError", "'str' object has no attribute 'keys'")
         ELSE IF analysis_type \notin (DOMAIN templates.d \cup {"Custom Query"})
         THEN Raise("ValueError", "Invalid analysis type: " \o analysis_type)
         ELSE IF ~connection_ok
         THEN Raise("ConnectionError", "Ollama client is not connected")
         ELSE Ok(PyNone)

\* prepare_analysis_request without the test of image_package['ready']
prepare_analysis_request_no_ready_check(schematic_path, datasheet_data, analysis_type, custom_query) ==
    LET built == build_analysis_context(schematic_path, datasheet_data,
                                        analysis_type, custom_query)
        image_package == create_analysis_package(schematic_path)
    IN  IF ~built.ok THEN built
        ELSE Ok([built.value EXCEPT !.image_data = image_package])

\* SchematicAnalyzer.prepare_analysis_request
prepare_analysis_request(schematic_path, datasheet_data, analysis_type, custom_query) ==
    Let(build_analysis_context(schematic_path, datasheet_data,
                               analysis_type, custom_query), LAMBDA built :
    Let(create_analysis_package(schematic_path), LAMBDA image_package :
        IF ~built.ok THEN built
        ELSE IF ~image_package.ready
        THEN Raise("Exception", "Failed to prepare image: " \o image_package.error)
        ELSE Ok([built.value EXCEPT !.image_data = image_package])))

\* the characters of a str value
text_chars(v) == IF v.py = "str" THEN Chars(v.val) ELSE v.val

\* the acceptance test with >= in place of >
accepted_ge(response_text) ==
    Truthy(response_text) /\ Len(strip(text_chars(response_text))) >= MinResponseLen

\* the acceptance test of perform_ollama_analysis:
\* response_text and len(response_text.strip()) > 10
accepted(response_text) ==
    Truthy(response_text) /\ Len(strip(text_chars(response_text))) > MinResponseLen

\* the exception of response_text.strip() when response_text is no str
no_strip(response_text) ==
    Raise("AttributeError", "'" \o type_name(response_text)
                            \o "' object has no attribute 'strip'")

\* attempt_once on a client whose generate takes the connection for
\* restored
attempt_once_reconnecting(connected, outcome) ==
    Let(generate(TRUE, FALSE, outcome), LAMBDA g :
        IF ~g.ret.ok THEN g
        ELSE Let(parse_response(g.ret.value), LAMBDA response_text :
                 IF Truthy(response_text) /\ type_name(response_text) # "str"
                 THEN [ret |-> no_strip(response_text), connected |-> g.connected]
                 ELSE IF accepted(response_text)
                 THEN [ret |-> Ok(response_text), connected |-> g.connected]
                 ELSE [ret |-> Raise("Exception", "Empty or too short response from Ollama"),
                       connected |-> g.connected]))

\* one pass through the try block of perform_ollama_analysis
attempt_once(connected, outcome) ==
    Let(generate(connected, FALSE, outcome), LAMBDA g :
        IF ~g.ret.ok THEN g
        ELSE Let(parse_response(g.ret.value), LAMBDA response_text :
                 IF Truthy(response_text) /\ type_name(response_text) # "str"
                 THEN [ret |-> no_strip(response_text), connected |-> g.connected]
                 ELSE IF accepted(response_text)
                 THEN [ret |-> Ok(response_text), connected |-> g.connected]
                 ELSE [ret |-> Raise("Exception", "Empty or too short response from Ollama"),
                       connected |-> g.connected]))

\* the loop bound off by one
in_range_off_by_one(att) == att <= max_retries

\* for attempt in range(self.max_retries)
in_range(att) == att < max_retries

\* record_error that keeps the first error of the loop
record_error_keep_first(previous, e) == IF previous = PyNone THEN e ELSE previous

\* except Exception as e: last_error = e
record_error(previous, e) == e

\* the exception raised once every attempt has failed
exhausted(error) ==
    Exc("Exception", "Ollama analysis failed after " \o ToString(max_retries)
                     \o " attempts: " \o error.msg)

(***************************************************************************)
(* Text of a response.                                                     *)
(***************************************************************************)
UpperCase == "ABCDEFGHIJKLMNOPQRSTUVWXYZ"
LowerCase == "abcdefghijklmnopqrstuvwxyz"
Digits == CharSet(DigitChars)
\* the characters that [A-Z] matches under re.IGNORECASE
Letters == CharSet(UpperCase) \cup CharSet(LowerCase)

\* c.lower() of each character c that has a lower-case form
LowerOf == [c \in CharSet(LowerFrom) |->
                At(LowerTo, CHOOSE i \in 1..Len(LowerFrom) : At(LowerFrom, i) = c)]

NoLower == CharSet(NoLowerChars)

\* str.lower() of one character; it has no value for a character of
\* NoLowerChars, which no text of the model holds
lower_char(c) ==
    CASE c \in DOMAIN LowerOf -> LowerOf[c]
      [] c \notin DOMAIN LowerOf /\ c \notin NoLower -> c

Cased == CharSet(CasedChars)
CaseIgnorable == CharSet(CaseIgnorableChars)

\* str.lower(): whether the capital sigma at position i ends a word, which
\* is when a cased character comes before it and none comes after it, the
\* case-ignorable characters passed over
final_sigma(s, i) ==
    LET before == {j \in 1..(i - 1) : At(s, j) \notin CaseIgnorable}
        after == {j \in (i + 1)..Len(s) : At(s, j) \notin CaseIgnorable}
    IN  /\ before # {}
        /\ At(s, CHOOSE j \in before : \A k \in before : k <= j) \in Cased
        /\ \/ after = {}
           \/ At(s, CHOOSE j \in after : \A k \in after : j <= k) \notin Cased

\* str.lower()
lower(s) ==
    Flat([i \in 1..Len(s) |->
            IF SubSeq(s, i, i) = "Σ"
            THEN (IF final_sigma(s, i) THEN "ς" ELSE "σ")
            ELSE lower_char(SubSeq(s, i, i))])

\* str.strip() of a string
strip_str(s) == Flat(strip(Chars(s)))

\* the elements of a set of integers in increasing order
Sorted(S) ==
    [k \in 1..Cardinality(S) |->
        CHOOSE x \in S : Cardinality({y \in S : y < x}) = k - 1]

RECURSIVE Concat(_)
\* the concatenation of a sequence of sequences
Concat(seqs) == IF seqs = <<>> THEN <<>> ELSE Head(seqs) \o Concat(Tail(seqs))

(***************************************************************************)
(* analyzer.py: the text heuristics of process_response.                   *)
(***************************************************************************)
\* the number of characters of class cls that follow position p of text
\* (a greedy \s* after p characters)
SkipWhile(text, p, cls) ==
    LET stops == {q \in p..Len(text) : q = Len(text) \/ At(text, q + 1) \notin cls}
    IN  IF p >= Len(text) THEN 0 ELSE Min(stops) - p

\* the lookahead (?=\n\n|\n[A-Z]|$) after q characters of text; under (?i)
\* [A-Z] is any letter, and $ is the end of the text or the place before a
\* last newline
SpanEnds(text, q) ==
    \/ q = Len(text)
    \/ q = Len(text) - 1 /\ At(text, Len(text)) = "\n"
    \/ /\ At(text, q + 1) = "\n"
       /\ At(text, q + 2) = "\n" \/ At(text, q + 2) \in Letters

\* the places where keyword is found in text, whatever the case, once `from`
\* characters have been passed, with at least the required blank after it
Occurrences(text, keyword, plural, from) ==
    {i \in (from + 1)..(Len(text) - Len(keyword) + 1) :
        /\ lower(SubSeq(text, i, i + Len(keyword) - 1)) = keyword
        /\ plural \/ At(text, i + Len(keyword)) \in Whitespace}

\* the match of (?i)keyword[s]?\s*:?\s*(.+?)(?=\n\n|\n[A-Z]|$) when plural,
\* of (?i)keyword\s+(.+?)(?=\n\n|\n[A-Z]|$) when not, at the occurrence i:
\* the group is text[start+1..end].  The lead-in takes all it can; when it
\* reaches the end of the text it gives back its last character to the
\* group, and there is no match when it has none to give (the keyword ends
\* the text, or \s+ has one blank only)
LeadInMatch(text, keyword, plural, i) ==
    LET k == i + Len(keyword) - 1
        least == IF plural THEN k ELSE k + 1
    IN  Let(IF plural /\ lower_char(At(text, k + 1)) = "s" THEN k + 1 ELSE k, LAMBDA s :
        Let(s + SkipWhile(text, s, Whitespace), LAMBDA w1 :
        Let(IF plural /\ At(text, w1 + 1) = ":" THEN w1 + 1 ELSE w1, LAMBDA c :
        Let(c + SkipWhile(text, c, Whitespace), LAMBDA w2 :
            IF w2 < Len(text)
            THEN [matched |-> TRUE, start |-> w2,
                  end |-> Min({q \in (w2 + 1)..Len(text) : SpanEnds(text, q)})]
            ELSE IF Len(text) - 1 >= least
            THEN [matched |-> TRUE, start |-> Len(text) - 1, end |-> Len(text)]
            ELSE [matched |-> FALSE, start |-> i, end |-> i]))))

RECURSIVE LeadInGroups(_, _, _, _)
\* [m.group(1).strip() for m in re.finditer(pattern, text, re.DOTALL)]
LeadInGroups(text, keyword, plural, from) ==
    Let(Occurrences(text, keyword, plural, from), LAMBDA occ :
        IF occ = {} THEN <<>>
        ELSE Let(LeadInMatch(text, keyword, plural, Min(occ)), LAMBDA m :
                 IF m.matched
                 THEN <<strip_str(SubSeq(text, m.start + 1, m.end))>>
                         \o LeadInGroups(text, keyword, plural, m.end)
                 ELSE LeadInGroups(text, keyword, plural, Min(occ))))

\* if text and len(text) > 10
LongEnough(text) == Len(text) > 10

\* determine_severity with 'missing' left out of the critical words
determine_severity_no_missing(finding_text) ==
    Let(lower(finding_text), LAMBDA text_lower :
        IF ContainsAny(text_lower, {"incorrect", "wrong", "error", "fault", "broken"})
        THEN "CRITICAL"
        ELSE IF ContainsAny(text_lower, {"warning", "concern", "problem", "issue", "violation"})
        THEN "HIGH"
        ELSE IF ContainsAny(text_lower, {"suboptimal", "improvement", "better", "consider"})
        THEN "MEDIUM"
        ELSE IF ContainsAny(text_lower, {"minor", "cosmetic", "style", "optional"})
        THEN "LOW"
        ELSE "INFO")

\* determine_severity
determine_severity(finding_text) ==
    Let(lower(finding_text), LAMBDA text_lower :
        IF ContainsAny(text_lower, {"missing", "incorrect", "wrong", "error", "fault", "broken"})
        THEN "CRITICAL"
        ELSE IF ContainsAny(text_lower, {"warning", "concern", "problem", "issue", "violation"})
        THEN "HIGH"
        ELSE IF ContainsAny(text_lower, {"suboptimal", "improvement", "better", "consider"})
        THEN "MEDIUM"
        ELSE IF ContainsAny(text_lower, {"minor", "cosmetic", "style", "optional"})
        THEN "LOW"
        ELSE "INFO")

\* the groups of every pattern of a list, in the order of the patterns
PatternGroups(text, keywords, plural) ==
    SelectSeq(Concat([p \in 1..Len(keywords) |->
                         LeadInGroups(text, keywords[p], plural, 0)]),
              LongEnough)

\* extract_findings with the verification findings put first
extract_findings_verification_first(response_text) ==
    Let(PatternGroups(response_text,
                      <<"issue", "problem", "concern", "warning", "error">>, TRUE),
        LAMBDA issue_texts :
    Let(PatternGroups(response_text, <<"verified", "correct", "good">>, TRUE),
        LAMBDA verified_texts :
        Take([i \in 1..Len(verified_texts) |->
                [description |-> verified_texts[i],
                 severity |-> "INFO",
                 type |-> "verification"]]
             \o [i \in 1..Len(issue_texts) |->
                [description |-> issue_texts[i],
                 severity |-> determine_severity(issue_texts[i]),
                 type |-> "issue"]],
             10)))

\* extract_findings
extract_findings(response_text) ==
    Let(PatternGroups(response_text,
                      <<"issue", "problem", "concern", "warning", "error">>, TRUE),
        LAMBDA issue_texts :
    Let(PatternGroups(response_text, <<"verified", "correct", "good">>, TRUE),
        LAMBDA verified_texts :
        Take([i \in 1..Len(issue_texts) |->
                [description |-> issue_texts[i],
                 severity |-> determine_severity(issue_texts[i]),
                 type |-> "issue"]]
             \o [i \in 1..Len(verified_texts) |->
                [description |-> verified_texts[i],
                 severity |-> "INFO",
                 type |-> "verification"]],
             10)))

\* the recommendations without the later ones that differ from an earlier
\* one by case only: seen = set(); if rec.lower() not in seen
unique(recommendations) ==
    Let([i \in 1..Len(recommendations) |-> lower(recommendations[i])], LAMBDA lowered :
    Let(Sorted({i \in 1..Len(recommendations) :
                    \A j \in 1..(i - 1) : lowered[j] # lowered[i]}), LAMBDA kept :
        [k \in 1..Len(kept) |-> recommendations[kept[k]]]))

\* extract_recommendations with the duplicates removed after the cap
extract_recommendations_cap_first(response_text) ==
    unique(Take(PatternGroups(response_text, <<"recommend", "suggest">>, TRUE)
                \o PatternGroups(response_text, <<"should", "consider">>, FALSE), 8))

\* extract_recommendations: the first occurrence of each text, compared in
\* lower case
extract_recommendations(response_text) ==
    Take(unique(PatternGroups(response_text, <<"recommend", "suggest">>, TRUE)
                \o PatternGroups(response_text, <<"should", "consider">>, FALSE)), 8)

\* identify_issues: the buckets of issue_keywords
CriticalWords == [severity |-> "CRITICAL",
                  keywords |-> {"missing", "incorrect", "wrong", "error", "fault",
                                "broken", "failed"}]
HighWords == [severity |-> "HIGH",
              keywords |-> {"warning", "concern", "problem", "issue", "mismatch",
                            "violation"}]
MediumWords == [severity |-> "MEDIUM",
                keywords |-> {"suboptimal", "improvement", "better", "alternative",
                              "consider"}]
LowWords == [severity |-> "LOW",
             keywords |-> {"minor", "cosmetic", "style", "preference", "optional"}]

\* issue_keywords with the buckets in the opposite order
issue_keywords_low_first == <<LowWords, MediumWords, HighWords, CriticalWords>>

\* identify_issues: issue_keywords, in the order of the dict
issue_keywords == <<CriticalWords, HighWords, MediumWords, LowWords>>

\* re.split(r'[.!?]+', text): the pieces between the runs of terminators
re_split(text) ==
    LET Terminators == {".", "!", "?"}
        inside == {i \in 1..Len(text) : At(text, i) \in Terminators}
        run_starts == Sorted({i \in inside : (i - 1) \notin inside})
        run_ends == Sorted({i \in inside : (i + 1) \notin inside})
        n == Len(run_starts)
    IN  [k \in 1..(n + 1) |->
            SubSeq(text,
                   IF k = 1 THEN 1 ELSE run_ends[k - 1] + 1,
                   IF k = n + 1 THEN Len(text) ELSE run_starts[k] - 1)]

\* the match of letters\d+ or pin\s*\d+ that starts at position i of text,
\* "" when there is none
ReferenceAt(text, i, letters) ==
    LET digits_after(p) == SkipWhile(text, p, Digits)
        blank == SkipWhile(text, i + 2, Whitespace)
    IN  IF lower_char(At(text, i)) \in letters /\ digits_after(i) > 0
        THEN SubSeq(text, i, i + digits_after(i))
        ELSE IF lower(At(text, i) \o At(text, i + 1) \o At(text, i + 2)) = "pin"
                /\ digits_after(i + 2 + blank) > 0
        THEN SubSeq(text, i, i + 2 + blank + digits_after(i + 2 + blank))
        ELSE ""

\* the positions of text where a reference starts
ReferenceStarts(text, letters) ==
    {i \in 1..Len(text) : ReferenceAt(text, i, letters) # ""}

\* identify_issues: re.search(r'([RCLUQDJXYrclugdxj]\d+|pin\s*\d+)', sentence,
\* re.IGNORECASE), group(1) or 'General'
component_of(sentence) ==
    LET letters == {"r", "c", "l", "u", "q", "d", "j", "x", "y", "g"} IN
    Let(ReferenceStarts(sentence, letters), LAMBDA starts :
        IF starts = {} THEN "General" ELSE ReferenceAt(sentence, Min(starts), letters))

\* categorize_issue with the connectivity words matched as prefixes of
\* 'pull-up' too
categorize_issue_pull_up(issue_text) ==
    LET text_lower == lower(issue_text) IN
    IF ContainsAny(text_lower, {"pin", "connection", "wire", "trace", "pull-up"})
    THEN "connectivity"
    ELSE IF ContainsAny(text_lower, {"voltage", "power", "supply", "vcc", "gnd"})
    THEN "power"
    ELSE IF ContainsAny(text_lower, {"capacitor", "resistor", "inductor", "component"})
    THEN "components"
    ELSE IF ContainsAny(text_lower, {"value", "rating", "specification"})
    THEN "specifications"
    ELSE "general"

\* categorize_issue
categorize_issue(issue_text) ==
    LET text_lower == lower(issue_text) IN
    IF ContainsAny(text_lower, {"pin", "connection", "wire", "trace"})
    THEN "connectivity"
    ELSE IF ContainsAny(text_lower, {"voltage", "power", "supply", "vcc", "gnd"})
    THEN "power"
    ELSE IF ContainsAny(text_lower, {"capacitor", "resistor", "inductor", "component"})
    THEN "components"
    ELSE IF ContainsAny(text_lower, {"value", "rating", "specification"})
    THEN "specifications"
    ELSE "general"

\* identify_issues: the buckets of issue_keywords that have a keyword in the
\* sentence
matching_buckets(sentence) ==
    {b \in 1..Len(issue_keywords) :
        ContainsAny(lower(sentence), issue_keywords[b].keywords)}

\* the issue identify_issues appends for a flagged sentence
issue_of(sentence) ==
    [description |-> sentence,
     severity |-> issue_keywords[Min(matching_buckets(sentence))].severity,
     component |-> component_of(sentence),
     category |-> categorize_issue(sentence)]

\* identify_issues
identify_issues(response_text) ==
    Let(re_split(response_text), LAMBDA pieces :
    Let([k \in 1..Len(pieces) |-> strip_str(pieces[k])], LAMBDA sentences :
    Let(Sorted({k \in 1..Len(sentences) :
                    /\ Len(sentences[k]) >= 10
                    /\ matching_buckets(sentences[k]) # {}}), LAMBDA flagged :
        Take([n \in 1..Len(flagged) |-> issue_of(sentences[flagged[n]])], 8))))

\* estimate_confidence: a response longer than this gets the length bonus
LongResponse == 500

\* estimate_confidence: the phrases that lower the score
generic_phrases == {"general", "typical", "usually", "might", "possibly"}

\* estimate_confidence: len(re.findall(r'[RCLUQDrclugd]\d+|pin\s*\d+',
\* response_text, re.IGNORECASE)); no match starts inside another
component_refs(response_text) ==
    Cardinality(ReferenceStarts(response_text, {"r", "c", "l", "u", "q", "d", "g"}))

\* confidence_score with the datasheet bonus left out
confidence_score_no_bonus(response_text, analysis_context) ==
    LET s2 == 50 + (IF Len(response_text) > LongResponse THEN 10 ELSE 0)
        s3 == s2 + (IF component_refs(response_text) > 3 THEN 10 ELSE 0)
        generic_count == Cardinality({p \in generic_phrases :
                                        Contains(lower(response_text), p)})
        s4 == s3 - generic_count * 5
    IN  IF s4 < 0 THEN 0 ELSE IF s4 > 100 THEN 100 ELSE s4

\* estimate_confidence: confidence_score after the clamp, in hundredths (the
\* float sums of the code order as these integers do against 0.8 and 0.6)
confidence_score(response_text, analysis_context) ==
    LET s1 == 50 + (IF analysis_context.has_datasheet THEN 30 ELSE 0)
        s2 == s1 + (IF Len(response_text) > LongResponse THEN 10 ELSE 0)
        s3 == s2 + (IF component_refs(response_text) > 3 THEN 10 ELSE 0)
        generic_count == Cardinality({p \in generic_phrases :
                                        Contains(lower(response_text), p)})
    IN  Let(s3 - generic_count * 5, LAMBDA s4 :
            IF s4 < 0 THEN 0 ELSE IF s4 > 100 THEN 100 ELSE s4)

\* estimate_confidence with > in the place of >=
estimate_confidence_strict(response_text, analysis_context) ==
    Let(confidence_score(response_text, analysis_context), LAMBDA score :
        IF score > 80 THEN "High" ELSE IF score > 60 THEN "Medium" ELSE "Low")

\* estimate_confidence
estimate_confidence(response_text, analysis_context) ==
    Let(confidence_score(response_text, analysis_context), LAMBDA score :
        IF score >= 80 THEN "High" ELSE IF score >= 60 THEN "Medium" ELSE "Low")

\* SchematicAnalyzer.process_response (summary, content and analysis_quality
\* are left out)
process_response(raw, analysis_context) ==
    Let(py_str(raw), LAMBDA response_text :
        [analysis_type |-> analysis_context.query_type,
         findings |-> extract_findings(response_text),
         recommendations |-> extract_recommendations(response_text),
         issues |-> identify_issues(response_text),
         raw_response |-> raw,
         metadata |-> [schematic_file |-> analysis_context.schematic.filename,
                       has_datasheet |-> analysis_context.has_datasheet,
                       datasheet_component |->
                           IF analysis_context.datasheet = PyNone THEN PyStr("N/A")
                           ELSE analysis_context.datasheet.component_name,
                       confidence |-> estimate_confidence(response_text, analysis_context)]])

\* create_error_result with an issues list that is kept between calls
create_error_result_keeping_issues(error_message, analysis_type) ==
    [analysis_type |-> analysis_type,
     summary |-> "Analysis failed: " \o error_message,
     findings |-> <<>>,
     recommendations |-> <<"Retry the analysis", "Check system requirements",
                           "Verify file formats">>,
     issues |-> (IF first # PyNone THEN first.result.issues ELSE <<>>)
                \o <<[description |-> "Analysis failed: " \o error_message,
                      severity |-> "CRITICAL",
                      component |-> "System",
                      category |-> "error"]>>,
     raw_response |-> "Error: " \o error_message,
     metadata |-> [schematic_file |-> "Unknown",
                   has_datasheet |-> FALSE,
                   datasheet_component |-> "N/A",
                   confidence |-> "N/A",
                   analysis_quality |-> "Error",
                   error |-> TRUE,
                   error_message |-> error_message]]

\* SchematicAnalyzer.create_error_result
create_error_result(error_message, analysis_type) ==
    [analysis_type |-> analysis_type,
     summary |-> "Analysis failed: " \o error_message,
     findings |-> <<>>,
     recommendations |-> <<"Retry the analysis", "Check system requirements",
                           "Verify file formats">>,
     issues |-> <<[description |-> "Analysis failed: " \o error_message,
                   severity |-> "CRITICAL",
                   component |-> "System",
                   category |-> "error"]>>,
     raw_response |-> "Error: " \o error_message,
     metadata |-> [schematic_file |-> "Unknown",
                   has_datasheet |-> FALSE,
                   datasheet_component |-> "N/A",
                   confidence |-> "N/A",
                   analysis_quality |-> "Error",
                   error |-> TRUE,
                   error_message |-> error_message]]

(***************************************************************************)
(* The analyzer as a state machine.  A caller invokes analyze(), or one of *)
(* the stage methods directly; pc is the stage the call is in.             *)
(***************************************************************************)
CustomQueries == {PyNone, PyStr("Is R1 the right value?")}

Request(path, ds, type, cq) ==
    [schematic_path |-> path, datasheet_data |-> ds,
     analysis_type |-> type, custom_query |-> cq]

FileStates == {[size |-> s, mtime |-> m, image_ok |-> b] :
                  s \in 1..MaxStamp, m \in 1..MaxStamp, b \in BOOLEAN}

\* Fail with an except clause that names the validation errors only
Fail_narrow_except(e) ==
    /\ pc' = "Errored"
    /\ IF entry = "analyze"
          /\ e.type \in {"FileNotFoundError", "ValueError", "ConnectionError"}
       THEN /\ result' = create_error_result(e.msg, req.analysis_type)
            /\ raised' = PyNone
            /\ caught' = [exc |-> e, stage |-> pc]
       ELSE /\ result' = PyNone
            /\ raised' = e
            /\ caught' = PyNone

\* Fail with a validation error that is recorded and then ignored
Fail_and_go_on(e) ==
    /\ pc' = IF pc = "Validating" THEN "BuildingContext" ELSE "Errored"
    /\ IF entry = "analyze"
       THEN /\ result' = create_error_result(e.msg, req.analysis_type)
            /\ raised' = PyNone
            /\ caught' = [exc |-> e, stage |-> pc]
       ELSE /\ result' = PyNone
            /\ raised' = e
            /\ caught' = PyNone

\* an exception leaves the stage that raised it: analyze() catches it and
\* returns create_error_result (the except clause); a stage method called
\* directly lets it reach the caller
Fail(e) ==
    /\ pc' = "Errored"
    /\ IF entry = "analyze"
       THEN /\ result' = create_error_result(e.msg, req.analysis_type)
            /\ raised' = PyNone
            /\ caught' = [exc |-> e, stage |-> pc]
       ELSE /\ result' = PyNone
            /\ raised' = e
            /\ caught' = PyNone

Begin(method, stage, request, ctx, raw, answer) ==
    /\ pc' = stage
    /\ entry' = method
    /\ req' = request
    /\ context' = ctx
    /\ attempt' = 0
    /\ last_error' = PyNone
    /\ raw_response' = raw
    /\ result' = PyNone
    /\ raised' = PyNone
    /\ caught' = PyNone
    /\ probe' = answer
    /\ generate_calls' = 0
    /\ last_attempt' = PyNone
    /\ reading' = PyNone
    /\ context_builds' = 0
    /\ UNCHANGED <<fs, is_connected, cacheVars>>

\* a caller invokes SchematicAnalyzer.analyze
analyze ==
    /\ UNCHANGED gui
    /\ pc = "Idle"
    /\ first' = PyNone
    /\ stub' = PyNone
    /\ \E path \in Paths, ds \in Datasheets, type \in AnalysisTypes,
          cq \in CustomQueries, tags \in TagsOutcomes :
        Begin("analyze", "Validating", Request(path, ds, type, cq), PyNone, PyNone,
              check_connection(tags))

\* the caller of analyze() invokes it again on the same analyzer with the
\* same arguments, the connection check answering as before
analyze_again ==
    /\ UNCHANGED gui
    /\ pc \in {"Done", "Errored"}
    /\ entry = "analyze"
    /\ first = PyNone
    /\ first' = [result |-> result, raised |-> raised, last_attempt |-> last_attempt]
    /\ UNCHANGED stub
    /\ Begin("analyze", "Validating", req, PyNone, PyNone, probe)

\* a caller invokes SchematicAnalyzer.prepare_analysis_request
call_prepare_analysis_request ==
    /\ UNCHANGED gui
    /\ pc = "Idle"
    /\ first' = PyNone
    /\ stub' = PyNone
    /\ \E path \in Paths, ds \in Datasheets, type \in AnalysisTypes, cq \in CustomQueries :
        Begin("prepare_analysis_request", "BuildingContext",
              Request(path, ds, type, cq), PyNone, PyNone, TRUE)

\* the gateway stubs of a test: one for each answer of GatewayOutcomes that
\* makes generate raise, and of those with a JSON body one whose text is
\* accepted, one whose text is too short and one that is no object
GatewayStubs ==
    {o \in GatewayOutcomes :
        o.kind = "json" =>
            o.body \in {PyNone,
                        PyDict(<< <<"response", PyText(Rep("x", MinResponseLen + 1))>> >>),
                        PyDict(<< <<"response", PyText(Rep("x", MinResponseLen))>> >>)}}

\* a caller invokes SchematicAnalyzer.perform_ollama_analysis with a context
\* that prepare_analysis_request built; the gateway answers what it will, or
\* is a stub
call_perform_ollama_analysis ==
    /\ UNCHANGED gui
    /\ pc = "Idle"
    /\ first' = PyNone
    /\ stub' \in {PyNone} \cup GatewayStubs
    /\ \E path \in Paths, type \in {"Component Verification", "Custom Query"} :
        \E p \in {prepare_analysis_request(path, PyNone, type, PyNone)} :
        /\ p.ok
        /\ Begin("perform_ollama_analysis", "Invoking",
                 Request(path, PyNone, type, PyNone), p.value, PyNone, TRUE)

\* the caller of perform_ollama_analysis invokes it again on the same
\* analyzer with the same context, the gateway being a stub that answers as
\* before; is_connected is what the first call left
call_perform_ollama_analysis_again ==
    /\ UNCHANGED gui
    /\ pc \in {"Done", "Errored"}
    /\ entry = "perform_ollama_analysis"
    /\ first = PyNone
    /\ stub # PyNone
    /\ first' = [result |-> result, raised |-> raised, last_attempt |-> last_attempt]
    /\ UNCHANGED stub
    /\ Begin("perform_ollama_analysis", "Invoking", req, context, PyNone, TRUE)

\* the caller of process_response invokes it again on the same analyzer with
\* the same response text and context
call_process_response_again ==
    /\ UNCHANGED gui
    /\ pc \in {"Done", "Errored"}
    /\ entry = "process_response"
    /\ first = PyNone
    /\ first' = [result |-> result, raised |-> raised, last_attempt |-> last_attempt]
    /\ UNCHANGED stub
    /\ Begin("process_response", "Parsing", req, context, raw_response, TRUE)

\* a call of a method of OllamaClient that starts with a generate call: what
\* the generate call leaves behind, `g` being what generate did
ClientCall(method, outcome, g) ==
    /\ entry' = method
    /\ req' = PyNone
    /\ context' = PyNone
    /\ attempt' = 0
    /\ last_error' = PyNone
    /\ raw_response' = PyNone
    /\ caught' = PyNone
    /\ probe' = TRUE
    /\ generate_calls' = 1
    /\ last_attempt' = [outcome |-> IF is_connected THEN outcome
                                    ELSE [kind |-> "not_sent"],
                        verdict |-> IF g.ret.ok THEN "returned" ELSE g.ret.exc.msg]
    /\ context_builds' = 0
    /\ is_connected' = g.connected
    /\ first' = PyNone
    /\ stub' = PyNone
    /\ UNCHANGED <<fs, cacheVars, gui>>

\* stream_generate goes on with `frame`, what is left of the stream, or
\* ends: it raises `exc`, or it returns full_response when the chunk with
\* 'done' was read (`ended`) or no line is left
StreamStep(frame, ended, exc) ==
    /\ reading' = frame
    /\ pc' = IF exc # PyNone THEN "Errored"
             ELSE IF ended \/ frame.lines = <<>> THEN "Done" ELSE "Streaming"
    /\ result' = IF pc' = "Done" THEN PyText(frame.full_response) ELSE PyNone
    /\ raised' = exc

\* a caller invokes OllamaClient.check_connection: the answer is returned
\* and is not kept
call_check_connection ==
    /\ pc = "Idle"
    /\ \E tags \in TagsOutcomes :
        /\ pc' = "Done"
        /\ entry' = "check_connection"
        /\ result' = PyBool(check_connection(tags))
        /\ probe' = check_connection(tags)
    /\ req' = PyNone
    /\ context' = PyNone
    /\ attempt' = 0
    /\ last_error' = PyNone
    /\ raw_response' = PyNone
    /\ raised' = PyNone
    /\ caught' = PyNone
    /\ generate_calls' = 0
    /\ last_attempt' = PyNone
    /\ reading' = PyNone
    /\ context_builds' = 0
    /\ first' = PyNone
    /\ stub' = PyNone
    /\ UNCHANGED <<fs, is_connected, cacheVars, gui>>

\* a caller invokes OllamaClient.test_connection
call_test_connection ==
    /\ pc = "Idle"
    /\ pc' = "Done"
    /\ raised' = PyNone
    /\ reading' = PyNone
    /\ \E outcome \in GatewayOutcomes :
        /\ ClientCall("test_connection", outcome, generate(is_connected, FALSE, outcome))
        /\ result' = test_connection(is_connected, outcome).ret.value

\* a caller invokes OllamaClient.stream_generate, with a callback or
\* without: response = self.generate(prompt, images, stream=True); the lines
\* of the response are read one after the other.  The JSONDecodeError of
\* requests is the one of the standard json module, or, in an installation
\* with simplejson, is not (stdlib_json)
call_stream_generate ==
    /\ pc = "Idle"
    /\ \E outcome \in StreamOutcomes, callback \in Callbacks, stdlib_json \in BOOLEAN :
        \E g \in {generate(is_connected, TRUE, outcome)} :
        /\ ClientCall("stream_generate", outcome, g)
        /\ StreamStep(IF g.ret.ok
                      THEN [lines |-> iter_lines(g.ret.value), full_response |-> <<>>,
                            callback |-> callback, calls |-> <<>>,
                            stdlib_json |-> stdlib_json]
                      ELSE PyNone,
                      FALSE, IF g.ret.ok THEN PyNone ELSE g.ret.exc)

\* stream_generate: one pass of the loop over the lines.  The callback runs
\* between two lines, in the caller's thread; one that calls generate makes a
\* POST of its own, which may lose the connection.  What it raises leaves
\* stream_generate, but for a JSONDecodeError of the standard json module,
\* which the except clause of the loop catches
Streaming ==
    /\ pc = "Streaming"
    /\ \E r \in {read_line(Head(reading.lines), reading.full_response)},
          rest \in {[reading EXCEPT !.lines = Tail(@)]} :
       IF r.kind # "text"
       THEN /\ StreamStep(rest, FALSE, IF r.kind = "raise" THEN r.exc ELSE PyNone)
            /\ UNCHANGED <<is_connected, generate_calls, last_attempt>>
       ELSE IF reading.callback = "none" \/ ~Truthy(r.text)
       THEN /\ StreamStep([rest EXCEPT !.full_response = r.full_response],
                          r.done, PyNone)
            /\ UNCHANGED <<is_connected, generate_calls, last_attempt>>
       ELSE \E called \in {[rest EXCEPT !.full_response = r.full_response,
                                        !.calls = Append(@, r.text)]} :
            IF reading.callback = "keep"
            THEN /\ StreamStep(called, r.done, PyNone)
                 /\ UNCHANGED <<is_connected, generate_calls, last_attempt>>
            ELSE \E outcome \in CallbackAnswers :
                 \E c \in {callback_call(reading.callback, is_connected, outcome)} :
                 /\ is_connected' = c.connected
                 /\ generate_calls' = generate_calls + 1
                 /\ last_attempt' = [outcome |-> IF is_connected THEN outcome
                                                 ELSE [kind |-> "not_sent"],
                                     verdict |-> c.verdict]
                 /\ StreamStep(called, c.ret.ok /\ r.done,
                               IF c.ret.ok \/ (reading.stdlib_json
                                               /\ c.ret.exc.type = "JSONDecodeError")
                               THEN PyNone ELSE c.ret.exc)
    /\ UNCHANGED <<fs, entry, req, context, attempt, last_error, raw_response,
                   caught, probe, context_builds, first, stub, cacheVars, gui>>

\* a caller invokes SchematicAnalyzer.process_response with a response text
\* and a context that prepare_analysis_request built
call_process_response ==
    /\ UNCHANGED gui
    /\ pc = "Idle"
    /\ first' = PyNone
    /\ stub' = PyNone
    /\ \E path \in Paths, type \in {"Component Verification", "Custom Query"},
          ds \in {PyNone, DS_Known},
          raw \in {PyText(Rep("x", MinResponseLen + 1)), PyText(<<>>),
                   PyText(Chars("Issue: R1 is missing here. Recommend adding part 1.\n"
                                \o "Verified: C1 value matches datasheet.\n"))} :
        \E p \in {prepare_analysis_request(path, ds, type, PyNone)} :
        /\ p.ok
        /\ Begin("process_response", "Parsing",
                 Request(path, ds, type, PyNone), p.value, raw, TRUE)

\* response texts that exercise the severity buckets: every combination of
\* a LOW, a MEDIUM, a HIGH and a CRITICAL word in one sentence
BucketTexts ==
    {"This is a" \o low \o medium \o high \o critical \o " part of " \o where \o "."
        : low \in {"", " minor"}, medium \in {"", " better"},
          high \in {"", " warning"}, critical \in {"", " missing"},
          where \in {"the board", "pin 4"}}

\* response texts that exercise the extraction of findings, recommendations
\* and issues
ExtractionTexts ==
    BucketTexts \cup
    {"Issues: R1 is missing a pull-up resistor. Recommend adding a 10k resistor. "
        \o "Verified: C1 value matches datasheet.",
     "This is a minor warning about a mismatch.",
     "Bad error. The Vcc supply of U3 failed! Is the style of the wire optional?",
     "Problem: the trace is broken here\nNext line. You should use pin 4 instead.\n",
     "Consider a better value. consider a better value",
     "All connections look right"}

\* text padded with filler up to n characters
Padded(text, n) == text \o " " \o Flat([i \in 1..(n - Len(text) - 1) |-> "x"])

\* response texts that exercise the confidence estimate: with and without
\* more than 3 references, with 0, 1 or 2 generic phrases, short, of
\* LongResponse characters and of one more
ConfidenceTexts ==
    {IF n = 0 THEN refs \o generic ELSE Padded(refs \o generic, n)
        : refs \in {"Looks fine", "R1 R2 R3 ok", "R1 R1 r1 R1", "R1 C2 U3 pin 4"},
          generic \in {"", " as usually", " might be typical"},
          n \in {0, LongResponse, LongResponse + 1}}

\* one line of a response that yields one issue finding, one recommendation
\* and one issue
IssueLine(k) ==
    "Issue: R" \o ToString(k) \o " is missing here. Recommend adding part "
        \o ToString(k) \o ".\n"

\* one line of a response that yields one verification finding
VerifiedLine(k) == "Verified: C" \o ToString(k) \o " value matches datasheet.\n"

\* response texts that exercise the caps of the lists: n issue lines followed
\* by v verification lines, below, at and above the caps
CapTexts ==
    {Flat([k \in 1..n |-> IssueLine(k)]) \o Flat([k \in 1..v |-> VerifiedLine(k)])
        : n \in {7, 9, 10, MaxLines}, v \in {0, 2}}

\* response texts that exercise the removal of duplicate recommendations:
\* case variants of one text under one lead-in and under several, a variant
\* that a later pattern finds earlier in the text, texts of 10 and of 11
\* characters, and 9 or more recommendations of which two differ by case only
DuplicateTexts ==
    {"Recommend adding A Pull-Up here\nrecommend ADDING a pull-up HERE\n"
        \o "Suggest adding a pull-up here\nConsider Adding a Pull-up here\n",
     "You should use a 10K Resistor\nRecommend use a 10k resistor\n",
     "Recommend 0123456789\nrecommend 0123456789a\nRecommends: 0123456789A\n",
     "Recommend ADDING PART 3\n"
        \o Flat([k \in 1..8 |-> "Recommend adding part " \o ToString(k) \o "\n"]),
     Flat([k \in 1..9 |-> "Suggest replacing part " \o ToString(k) \o "\n"])
        \o "Recommend Replacing Part 9\n"}

\* a caller invokes SchematicAnalyzer.process_response with a response text
\* of the model and the context of a request for work/a.png
call_process_response_on_text ==
    /\ UNCHANGED gui
    /\ pc = "Idle"
    /\ first' = PyNone
    /\ stub' = PyNone
    /\ \E c \in ((ExtractionTexts \cup CapTexts \cup DuplicateTexts) \X {PyNone})
                 \cup (ConfidenceTexts \X {PyNone, DS_Known, DS_Unknown, DS_NoName}) :
        LET p == prepare_analysis_request("work/a.png", c[2],
                                          "Component Verification", PyNone) IN
        /\ p.ok
        /\ Begin("process_response", "Parsing",
                 Request("work/a.png", c[2], "Component Verification", PyNone),
                 p.value, PyText(Chars(c[1])), TRUE)

\* analyze(): self.validate_analysis_inputs(schematic_path, analysis_type)
Validating ==
    /\ pc = "Validating"
    /\ LET v == validate_analysis_inputs(req.schematic_path, req.analysis_type, probe) IN
       IF v.ok
       THEN /\ pc' = "BuildingContext"
            /\ UNCHANGED <<result, raised, caught>>
       ELSE Fail(v.exc)
    /\ UNCHANGED <<fs, is_connected, entry, req, context, attempt, last_error,
                   raw_response, probe, generate_calls, last_attempt, reading,
                   context_builds, first, stub, cacheVars, gui>>

\* analyze(): analysis_context = self.prepare_analysis_request(...)
BuildingContext ==
    /\ pc = "BuildingContext"
    /\ context_builds' = context_builds + 1
    /\ \E p \in {prepare_analysis_request(req.schematic_path, req.datasheet_data,
                                          req.analysis_type, req.custom_query)} :
       IF p.ok
       THEN /\ context' = p.value
            /\ UNCHANGED <<raised, caught>>
            /\ IF entry = "prepare_analysis_request"
               THEN pc' = "Done" /\ result' = p.value
               ELSE pc' = "Invoking" /\ result' = PyNone
       ELSE /\ Fail(p.exc)
            /\ UNCHANGED context
    /\ UNCHANGED <<fs, is_connected, entry, req, attempt, last_error,
                   raw_response, probe, generate_calls, last_attempt, reading, first, stub,
                   cacheVars, gui>>

\* perform_ollama_analysis: one iteration of the retry loop, and after the
\* last failed one the raise that follows the loop
Invoking ==
    /\ pc = "Invoking"
    /\ in_range(attempt)
    /\ \E outcome \in IF stub = PyNone THEN GatewayOutcomes ELSE {stub} :
        \E a \in {attempt_once(is_connected, outcome)} :
        /\ is_connected' = a.connected
        /\ generate_calls' = generate_calls + 1
        /\ last_attempt' = [outcome |-> IF is_connected THEN outcome
                                        ELSE [kind |-> "not_sent"],
                            verdict |-> IF a.ret.ok THEN "accepted" ELSE a.ret.exc.msg,
                            sent |-> (IF last_attempt = PyNone THEN 0
                                      ELSE last_attempt.sent)
                                     + (IF is_connected THEN 1 ELSE 0)]
        /\ IF a.ret.ok
           THEN /\ raw_response' = a.ret.value
                /\ IF entry = "perform_ollama_analysis"
                   THEN pc' = "Done" /\ result' = a.ret.value
                   ELSE pc' = "Parsing" /\ result' = PyNone
                /\ UNCHANGED <<attempt, last_error, raised, caught>>
           ELSE /\ last_error' = record_error(last_error, a.ret.exc)
                /\ attempt' = attempt + 1
                /\ UNCHANGED raw_response
                /\ IF in_range(attempt + 1)
                   THEN UNCHANGED <<pc, result, raised, caught>>
                   ELSE Fail(exhausted(last_error'))
    /\ UNCHANGED <<fs, entry, req, context, probe, context_builds, first, reading,
                   stub, cacheVars, gui>>

\* analyze(): results = self.process_response(raw_response, analysis_context)
Parsing ==
    /\ pc = "Parsing"
    /\ pc' = "Done"
    /\ result' = process_response(raw_response, context)
    /\ UNCHANGED <<fs, is_connected, entry, req, context, attempt, last_error,
                   raw_response, raised, caught, probe, generate_calls,
                   last_attempt, reading, context_builds, first, stub, cacheVars, gui>>

\* Return of an analyzer that keeps the result of each call for the next
\* call on the same schematic
Return_keeping_result ==
    /\ pc \in {"Done", "Errored"}
    /\ pc' = "Idle"
    /\ entry' = "none"
    /\ req' = PyNone
    /\ context' = PyNone
    /\ attempt' = 0
    /\ last_error' = PyNone
    /\ raw_response' = PyNone
    /\ result' = PyNone
    /\ raised' = PyNone
    /\ caught' = PyNone
    /\ probe' = TRUE
    /\ generate_calls' = 0
    /\ last_attempt' = PyNone
    /\ reading' = PyNone
    /\ context_builds' = 0
    /\ first' = PyNone
    /\ stub' = PyNone
    /\ cache' = [k \in DOMAIN cache \cup {req.schematic_path} |->
                    IF k = req.schematic_path THEN result ELSE cache[k]]
    /\ UNCHANGED <<fs, is_connected, access_times, order, clock, written, last_op, gui>>

\* the caller has the value or the exception; the analyzer is free again
Return ==
    /\ pc \in {"Done", "Errored"}
    /\ pc' = "Idle"
    /\ entry' = "none"
    /\ req' = PyNone
    /\ context' = PyNone
    /\ attempt' = 0
    /\ last_error' = PyNone
    /\ raw_response' = PyNone
    /\ result' = PyNone
    /\ raised' = PyNone
    /\ caught' = PyNone
    /\ probe' = TRUE
    /\ generate_calls' = 0
    /\ last_attempt' = PyNone
    /\ reading' = PyNone
    /\ context_builds' = 0
    /\ first' = PyNone
    /\ stub' = PyNone
    /\ UNCHANGED <<fs, is_connected, cacheVars, gui>>

(***************************************************************************)
(* core/pdf_processor.py, utils/text_utils.py, analysis/datasheet_parser.py *)
(***************************************************************************)
\* the greatest element of a non-empty set of integers
Max(S) == CHOOSE x \in S : \A y \in S : y <= x

\* the characters of text at the positions of the set `kept`, in their order
pick(text, kept) ==
    Let(Sorted(kept), LAMBDA at : Flat([k \in 1..Len(at) |-> At(text, at[k])]))

\* the number of characters c that come directly before position i of text
run_before(text, i, c) ==
    i - 1 - Max({j \in 0..(i - 1) : j = 0 \/ At(text, j) # c})

\* re.sub of a run of `least` or more characters c by `width` of them: of
\* such a run the first `width` characters stay
squeeze(text, c, least, width) ==
    pick(text, {i \in 1..Len(text) :
                   \/ At(text, i) # c
                   \/ run_before(text, i, c) < width
                   \/ run_before(text, i, c) + 1 + SkipWhile(text, i, {c}) < least})

\* text.split('\n')
split_lines(text) ==
    Let(Sorted({i \in 1..Len(text) : At(text, i) = "\n"}), LAMBDA breaks :
        [k \in 1..(Len(breaks) + 1) |->
            SubSeq(text,
                   IF k = 1 THEN 1 ELSE breaks[k - 1] + 1,
                   IF k = Len(breaks) + 1 THEN Len(text) ELSE breaks[k] - 1)])

\* [line.rstrip() for line in lines]
rstrip_lines(lines) == [k \in 1..Len(lines) |-> Flat(rstrip(Chars(lines[k])))]

\* the lines without the empty ones at the start and at the end, joined
join_inner(lines) ==
    Let({k \in 1..Len(lines) : strip_str(lines[k]) # ""}, LAMBDA full :
        IF full = {} THEN "" ELSE JoinStr(SubSeq(lines, Min(full), Max(full)), "\n"))

\* utils.text_utils.clean_whitespace: re.sub(r' +', ' '), then
\* re.sub(r'\n{3,}', '\n\n'), then the lines right-stripped and the empty
\* lines at the start and at the end removed
clean_whitespace(text) ==
    join_inner(rstrip_lines(split_lines(
        squeeze(squeeze(text, " ", 1, 1), "\n", 3, 2))))

\* the length of the match of [A-Z]+\d+[A-Z]* at position i of text, with
\* `letters` capitals and `digits` digits at least; 0 when there is none
part_number_at(text, i, letters, digits) ==
    Let(SkipWhile(text, i - 1, CharSet(UpperCase)), LAMBDA a :
    Let(SkipWhile(text, i - 1 + a, Digits), LAMBDA d :
        IF a >= letters /\ d >= digits
        THEN a + d + SkipWhile(text, i - 1 + a + d, CharSet(UpperCase))
        ELSE 0))

\* r'^([A-Z]+\d+[A-Z]*)\s' under re.MULTILINE at position i: the group, ""
\* when there is no match
at_line_start(text, i) ==
    Let(part_number_at(text, i, 1, 1), LAMBDA n :
        IF (i = 1 \/ At(text, i - 1) = "\n") /\ n > 0 /\ At(text, i + n) \in Whitespace
        THEN SubSeq(text, i, i + n - 1) ELSE "")

\* label\s*([A-Z]+\d+[A-Z]*) at position i: the group, "" when no match
after_label(text, label, i) ==
    IF i + Len(label) - 1 > Len(text) \/ SubSeq(text, i, i + Len(label) - 1) # label
    THEN ""
    ELSE Let(i + Len(label) - 1 + SkipWhile(text, i + Len(label) - 1, Whitespace),
             LAMBDA p : SubSeq(text, p + 1, p + part_number_at(text, p + 1, 1, 1)))

\* r'([A-Z]{2,}\d{3,}[A-Z]*)' at position i: the group, "" when no match
general_ic(text, i) == SubSeq(text, i, i + part_number_at(text, i, 2, 3) - 1)

\* prefix\d{3,}[A-Z]* at position i: the match, "" when there is none
with_prefix(text, prefix, i) ==
    IF i + Len(prefix) - 1 > Len(text) \/ SubSeq(text, i, i + Len(prefix) - 1) # prefix
       \/ SkipWhile(text, i + Len(prefix) - 1, Digits) < 3
    THEN ""
    ELSE Let(i + Len(prefix) - 1 + SkipWhile(text, i + Len(prefix) - 1, Digits),
             LAMBDA p : SubSeq(text, i, p + SkipWhile(text, p, CharSet(UpperCase))))

ic_prefixes == <<"LM", "TL", "AD", "MAX", "LT", "MC", "NE", "OP", "TPS", "STM">>

\* extract_component_name: what the k-th thing it tries gives at position i
\* of text, "" for no match there: its four patterns in their order, then
\* the IC prefixes of its fallback
name_at(text, k, i) ==
    CASE k = 1 -> at_line_start(text, i)
      [] k = 2 -> after_label(text, "Part Number:", i)
      [] k = 3 -> after_label(text, "Device:", i)
      [] k = 4 -> general_ic(text, i)
      [] k > 4 -> with_prefix(text, ic_prefixes[k - 4], i)

\* the first match of re.search for the k-th pattern, "" when there is none
name_search(text, k) ==
    Let({i \in 1..Len(text) : name_at(text, k, i) # ""}, LAMBDA starts :
        IF starts = {} THEN "" ELSE name_at(text, k, Min(starts)))

\* DatasheetParser.extract_component_name: the patterns are tried on
\* text[:1000]
extract_component_name(text) ==
    Let({k \in 1..(4 + Len(ic_prefixes)) : name_search(Take(text, 1000), k) # ""},
        LAMBDA found :
        IF found = {} THEN "Unknown Component"
        ELSE name_search(Take(text, 1000), Min(found)))

\* PDFProcessor._extract_with_pdfplumber and _extract_with_pypdf2 on the text
\* of each page, "" for a page without text, of a PDF without tables
page_texts(pages) ==
    Let(Sorted({i \in 1..Len(pages) : pages[i] # ""}), LAMBDA with_text :
        JoinStr([k \in 1..Len(with_text) |->
                    "--- Page " \o ToString(with_text[k]) \o " ---\n"
                    \o pages[with_text[k]]], "\n\n"))

\* PDFProcessor.extract_text on a file the upload panel has copied; pdf is
\* what each of the two PDF libraries reads from it, the pages or an
\* exception.  The text of pdfplumber is taken when it has more than 100
\* characters, the blanks at its ends not counted
extract_text(pdf) ==
    IF pdf.pdfplumber.ok
       /\ Len(strip_str(page_texts(pdf.pdfplumber.value))) > 100
    THEN Ok(page_texts(pdf.pdfplumber.value))
    ELSE IF pdf.pypdf2.ok THEN Ok(page_texts(pdf.pypdf2.value))
    ELSE Raise("Exception", "Failed to extract text from PDF: " \o pdf.pypdf2.exc.msg)

\* DatasheetParser.parse on a text in which its extractors find no pin, no
\* value, no feature, no circuit, no note and no package
parse(text) ==
    Let(clean_whitespace(text), LAMBDA cleaned :
        PyDict(<< <<"component_name", PyStr(extract_component_name(cleaned))>>,
                  <<"pin_config", PyDict(<<>>)>>,
                  <<"electrical_specs", PyDict(<<>>)>>,
                  <<"recommended_circuits", PyList(<<>>)>>,
                  <<"key_parameters", PyDict(<<>>)>>,
                  <<"features", PyList(<<>>)>>,
                  <<"operating_conditions", PyDict(<<>>)>>,
                  <<"package_info", PyStr("Package information not found")>>,
                  <<"application_notes", PyList(<<>>)>>,
                  <<"full_text", PyStr(cleaned)>> >>))

(***************************************************************************)
(* gui/main_window.py, gui/analysis_panel.py: the main window.  Tk runs    *)
(* every handler and every after() callback on the thread of mainloop, one *)
(* at a time; gui.ui is what that thread is doing.  A modal dialog runs an  *)
(* event loop of its own, which keeps the input of the user from the main  *)
(* window and runs the after() callbacks that are due; gui.modal is        *)
(* whether the error dialog of process_datasheet is open.                  *)
(***************************************************************************)
\* MainWindow.__init__ and AnalysisPanel.__init__: analyzer is whether
\* initialize_ollama found the endpoint and created self.analyzer
MainWindowInit(analyzer) ==
    [analyzer |-> analyzer,
     current_schematic |-> PyNone,
     current_datasheet |-> PyNone,
     datasheet_data |-> DS_Empty,
     schematic_loaded |-> FALSE,
     datasheet_loaded |-> FALSE,
     buttons |-> "disabled",
     run_timers |-> <<>>,
     restore_timers |-> 0,
     current_results |-> PyNone,
     progress |-> FALSE,
     ui |-> "mainloop",
     modal |-> FALSE,
     call |-> PyNone,
     in_progress |-> 0,
     requested |-> FALSE]

\* config.MAX_CONCURRENT_ANALYSES
MAX_CONCURRENT_ANALYSES == 1

\* a run_analysis that is started on a thread of its own
UiIdle_threaded == TRUE

\* the thread of mainloop is free to run a handler or a due callback
UiIdle == gui.ui = "mainloop"

\* the main window takes an event of the user: its thread is free and no
\* modal dialog is open
UserInput == UiIdle /\ ~gui.modal

\* what check_connection answers
ConnectionAnswers == {check_connection(tags) : tags \in TagsOutcomes}

\* room for one more pending callback of each kind
CanSchedule == Len(gui.run_timers) < MaxPending /\ gui.restore_timers < MaxPending

\* AnalysisPanel.update_button_states
update_button_states(g, schematic_loaded, datasheet_loaded) ==
    [g EXCEPT !.schematic_loaded = schematic_loaded,
              !.datasheet_loaded = datasheet_loaded,
              !.buttons = IF schematic_loaded THEN "normal" ELSE "disabled"]

\* AnalysisPanel.show_analysis_starting: the buttons are disabled and
\* restore_button_states is scheduled 3000 ms later
show_analysis_starting(g) ==
    [g EXCEPT !.buttons = "disabled", !.restore_timers = @ + 1]

\* MainWindow.on_analysis_requested: without a schematic or an analyzer a
\* warning is shown; otherwise the results are cleared and run_analysis is
\* scheduled 100 ms later
on_analysis_requested(g, analysis_type, custom_query) ==
    IF g.current_schematic = PyNone THEN g
    ELSE IF ~g.analyzer THEN g
    ELSE [g EXCEPT !.progress = TRUE,
                   !.current_results = PyNone,
                   !.requested = TRUE,
                   !.run_timers = Append(@, [analysis_type |-> analysis_type,
                                             custom_query |-> custom_query,
                                             requested_for |-> g.current_schematic])]

\* MainWindow.on_file_uploaded("schematic", path)
on_file_uploaded_schematic ==
    /\ UserInput
    /\ \E path \in Paths :
        gui' = update_button_states([gui EXCEPT !.current_schematic = PyStr(path)],
                                    TRUE, gui.current_datasheet # PyNone)
    /\ UNCHANGED <<fs, analyzerVars, cacheVars>>

\* process_datasheet: the record it stores when the datasheet could not be
\* read or parsed
fallback_datasheet(component_name, error, full_text) ==
    PyDict(<< <<"component_name", PyStr(component_name)>>,
              <<"error", PyStr(error)>>,
              <<"full_text", PyStr(full_text)>>,
              <<"pin_config", PyDict(<<>>)>>,
              <<"electrical_specs", PyDict(<<>>)>>,
              <<"recommended_circuits", PyList(<<>>)>>,
              <<"key_parameters", PyDict(<<>>)>>,
              <<"features", PyList(<<>>)>>,
              <<"operating_conditions", PyDict(<<>>)>>,
              <<"package_info", PyStr("Unknown")>>,
              <<"application_notes", PyList(<<>>)>> >>)

\* a PDF as the two libraries read it
Pdf(pdfplumber, pypdf2) == [pdfplumber |-> pdfplumber, pypdf2 |-> pypdf2]

\* the datasheets a user uploads, the path and the file: one with a part
\* number at the start of a line and blanks to clean, one whose first page
\* has no text and that names no part, one that pdfplumber alone reads, with
\* a labelled part number in more than 100 characters, and one that neither
\* library can read
DatasheetUploads ==
    {[path |-> "datasheet.pdf",
      pdf |-> Pdf(Ok(<<"LM7805  regulator \n\n\n\nfixed output  \n">>),
                  Ok(<<"LM7805  regulator \n\n\n\nfixed output  \n">>))],
     [path |-> "notes.pdf",
      pdf |-> Pdf(Ok(<<"", "regulator notes">>), Ok(<<"", "regulator notes">>))],
     [path |-> "long.pdf",
      pdf |-> Pdf(Ok(<<"Device: TL431B shunt\n" \o Flat(Rep("x", 100))>>),
                  Raise("PdfReadError", "EOF marker not found"))],
     [path |-> "broken.pdf",
      pdf |-> Pdf(Raise("PDFSyntaxError", "No /Root object! - Is this really a PDF?"),
                  Raise("PdfReadError", "EOF marker not found"))]}

\* MainWindow.process_datasheet: the record it stores in self.datasheet_data
\* and whether it shows the error dialog
process_datasheet(text, parsed) ==
    IF ~text.ok
    THEN [datasheet_data |-> fallback_datasheet("Unknown", text.exc.msg, ""),
          dialog |-> TRUE]
    ELSE IF ~parsed.ok
    THEN [datasheet_data |-> fallback_datasheet("Unknown Component",
                                "Parsing failed: " \o parsed.exc.msg, text.value),
          dialog |-> FALSE]
    ELSE IF parsed.value.py # "dict"
    THEN [datasheet_data |-> fallback_datasheet("Unknown",
                                "Parser returned invalid data type", text.value),
          dialog |-> FALSE]
    ELSE [datasheet_data |-> parsed.value, dialog |-> FALSE]

\* process_datasheet on each file: self.pdf_processor.extract_text(file_path),
\* then parser.parse(raw_text) on the text that was read
ProcessedUploads ==
    {[path |-> upload.path,
      processed |-> LET text == extract_text(upload.pdf)
                    IN  process_datasheet(text, IF text.ok THEN Ok(parse(text.value))
                                                ELSE Ok(PyNone))]
        : upload \in DatasheetUploads}

\* MainWindow.on_file_uploaded("datasheet", path): process_datasheet shows
\* the progress bar, reads and parses the file and hides the progress bar,
\* then the buttons are updated.  When the file cannot be read the error
\* dialog is opened after the record is stored, and what follows it waits
\* for the dialog to be closed
on_file_uploaded_datasheet ==
    /\ UserInput
    /\ \E upload \in ProcessedUploads :
        \E processed \in {upload.processed} :
        gui' = IF processed.dialog
               THEN [gui EXCEPT !.current_datasheet = PyStr(upload.path),
                                !.datasheet_data = processed.datasheet_data,
                                !.progress = TRUE,
                                !.modal = TRUE]
               ELSE update_button_states(
                        [gui EXCEPT !.current_datasheet = PyStr(upload.path),
                                    !.datasheet_data = processed.datasheet_data,
                                    !.progress = FALSE],
                        gui.current_schematic # PyNone, TRUE)
    /\ UNCHANGED <<fs, analyzerVars, cacheVars>>

\* the error dialog of process_datasheet is closed: show_progress(False) in
\* its finally clause, and on_file_uploaded goes on to update the buttons
datasheet_error_closed ==
    /\ UiIdle
    /\ gui.modal
    /\ gui' = update_button_states([gui EXCEPT !.modal = FALSE, !.progress = FALSE],
                                   gui.current_schematic # PyNone,
                                   gui.current_datasheet # PyNone)
    /\ UNCHANGED <<fs, analyzerVars, cacheVars>>

\* AnalysisPanel.on_preset_click: a click on an enabled preset button
on_preset_click ==
    /\ UserInput
    /\ gui.buttons = "normal"
    /\ CanSchedule
    /\ \E analysis_type \in {"Component Verification", "Power Supply Analysis"} :
        gui' = IF ~gui.schematic_loaded THEN gui
               ELSE on_analysis_requested(show_analysis_starting(gui),
                                          analysis_type, PyNone)
    /\ UNCHANGED <<fs, analyzerVars, cacheVars>>

\* AnalysisPanel.on_custom_query_submit: a click on the enabled submit
\* button; a query of fewer than 10 characters is refused
on_custom_query_submit ==
    /\ UserInput
    /\ gui.buttons = "normal"
    /\ CanSchedule
    /\ \E query \in {"", "R1 ok?", "Is R1 the right value?"} :
        gui' = IF ~gui.schematic_loaded \/ Len(query) < 10 THEN gui
               ELSE on_analysis_requested(show_analysis_starting(gui),
                                          "Custom Query", PyStr(query))
    /\ UNCHANGED <<fs, analyzerVars, cacheVars>>

\* AnalysisPanel.restore_button_states, when its 3000 ms have passed
restore_button_states ==
    /\ UiIdle
    /\ gui.restore_timers > 0
    /\ gui' = update_button_states([gui EXCEPT !.restore_timers = @ - 1],
                                   gui.schematic_loaded, gui.datasheet_loaded)
    /\ UNCHANGED <<fs, analyzerVars, cacheVars>>

\* MainWindow.clear_all (the Clear All menu entry, Control-l)
clear_all ==
    /\ UserInput
    /\ gui' = update_button_states([gui EXCEPT !.current_schematic = PyNone,
                                               !.current_datasheet = PyNone,
                                               !.datasheet_data = DS_Empty,
                                               !.current_results = PyNone,
                                               !.requested = FALSE],
                                   FALSE, FALSE)
    /\ UNCHANGED <<fs, analyzerVars, cacheVars>>

\* ResultsPanel.clear_results: a click on the Clear button of the results
\* panel, which display_results enables and clear_results disables
clear_results ==
    /\ UserInput
    /\ gui.current_results # PyNone
    /\ gui' = [gui EXCEPT !.current_results = PyNone]
    /\ UNCHANGED <<fs, analyzerVars, cacheVars>>

\* AnalysisPanel.reset, which the thread of mainloop may call
reset ==
    /\ UiIdle
    /\ gui' = update_button_states(gui, FALSE, FALSE)
    /\ UNCHANGED <<fs, analyzerVars, cacheVars>>

\* MainWindow.initialize_ollama (View > Refresh Connection): a client is
\* made, whose constructor sets is_connected from check_connection, and
\* check_connection is called once more; when it answers true an analyzer
\* is made on the new client, otherwise the window keeps the analyzer it
\* has, if any, and the client of that analyzer
initialize_ollama ==
    /\ UserInput
    /\ \E constructed, asked \in ConnectionAnswers :
        IF asked
        THEN /\ is_connected' = constructed
             /\ gui' = [gui EXCEPT !.analyzer = TRUE]
        ELSE UNCHANGED <<is_connected, gui>>
    /\ UNCHANGED <<fs, pc, entry, req, context, attempt, last_error,
                   raw_response, result, raised, caught, probe,
                   generate_calls, last_attempt, reading, context_builds, first, stub, cacheVars>>

\* analyze(None, ...): os.path.exists(None) raises TypeError in
\* validate_analysis_inputs, and analyze() returns the error result
analyze_without_path(request, answer) ==
    LET e == Exc("TypeError", "stat: path should be string, bytes, os.PathLike "
                              \o "or integer, not NoneType") IN
    /\ pc' = "Errored"
    /\ entry' = "analyze"
    /\ req' = request
    /\ context' = PyNone
    /\ attempt' = 0
    /\ last_error' = PyNone
    /\ raw_response' = PyNone
    /\ result' = create_error_result(e.msg, request.analysis_type)
    /\ raised' = PyNone
    /\ caught' = [exc |-> e, stage |-> "Validating"]
    /\ probe' = answer
    /\ generate_calls' = 0
    /\ last_attempt' = PyNone
    /\ reading' = PyNone
    /\ context_builds' = 0
    /\ UNCHANGED <<fs, is_connected, cacheVars>>

\* MainWindow.run_analysis, when its 100 ms have passed: it calls
\* self.analyzer.analyze with the schematic and the datasheet of that moment
run_analysis ==
    /\ UiIdle
    /\ gui.run_timers # <<>>
    /\ first' = PyNone
    /\ stub' = PyNone
    /\ LET timer == Head(gui.run_timers) IN
       /\ gui' = [gui EXCEPT !.run_timers = Tail(@),
                             !.ui = "run_analysis",
                             !.in_progress = @ + 1,
                             !.call = [schematic_path |-> gui.current_schematic,
                                       requested_for |-> timer.requested_for]]
       /\ \E answer \in ConnectionAnswers :
            IF gui.current_schematic = PyNone
            THEN analyze_without_path(Request(PyNone, gui.datasheet_data,
                                              timer.analysis_type, timer.custom_query),
                                      answer)
            ELSE Begin("analyze", "Validating",
                       Request(gui.current_schematic.val, gui.datasheet_data,
                               timer.analysis_type, timer.custom_query),
                       PyNone, PyNone, answer)

\* run_analysis: a stage of the analyze() call, on the thread of mainloop
analyze_step ==
    gui.ui = "run_analysis" /\ (Validating \/ BuildingContext \/ Invoking \/ Parsing)

\* run_analysis: the analyzer is free again once the result is taken
analyze_returned == gui.ui = "finally" /\ Return

\* run_analysis: self.results_panel.display_results(results), analyze()
\* having returned
display_results ==
    /\ gui.ui = "run_analysis"
    /\ pc \in {"Done", "Errored"}
    /\ gui' = [gui EXCEPT !.current_results = result,
                          !.in_progress = @ - 1,
                          !.ui = "finally"]
    /\ UNCHANGED <<fs, analyzerVars, cacheVars>>

\* run_analysis: the finally clause, show_progress(False); the handler
\* returns to mainloop
run_analysis_finally ==
    /\ gui.ui = "finally"
    /\ pc = "Idle"
    /\ gui' = [gui EXCEPT !.progress = FALSE, !.ui = "mainloop"]
    /\ UNCHANGED <<fs, analyzerVars, cacheVars>>

\* a user event or a due callback that the main window handles
UiEvent ==
    \/ on_file_uploaded_schematic
    \/ on_file_uploaded_datasheet
    \/ datasheet_error_closed
    \/ on_preset_click
    \/ on_custom_query_submit
    \/ restore_button_states
    \/ clear_all
    \/ clear_results
    \/ reset
    \/ initialize_ollama
    \/ run_analysis

\* after MainWindow.__init__: the uploaded files are in place
GuiInit ==
    /\ fs = [p \in Paths |-> [size |-> 1, mtime |-> 1, image_ok |-> TRUE]]
    /\ is_connected \in ConnectionAnswers
    /\ pc = "Idle"
    /\ entry = "none"
    /\ req = PyNone
    /\ context = PyNone
    /\ attempt = 0
    /\ last_error = PyNone
    /\ raw_response = PyNone
    /\ result = PyNone
    /\ raised = PyNone
    /\ caught = PyNone
    /\ probe = TRUE
    /\ generate_calls = 0
    /\ last_attempt = PyNone
    /\ reading = PyNone
    /\ context_builds = 0
    /\ first = PyNone
    /\ stub = PyNone
    /\ cache = EmptyDict
    /\ access_times = EmptyDict
    /\ order = <<>>
    /\ clock = 0
    /\ written = EmptyDict
    /\ last_op = [op |-> "init"]
    /\ \E analyzer \in ConnectionAnswers : gui = MainWindowInit(analyzer)

GuiNext ==
    \/ on_file_uploaded_schematic
    \/ on_file_uploaded_datasheet
    \/ datasheet_error_closed
    \/ on_preset_click
    \/ on_custom_query_submit
    \/ restore_button_states
    \/ clear_all
    \/ clear_results
    \/ reset
    \/ initialize_ollama
    \/ run_analysis
    \/ analyze_step
    \/ display_results
    \/ analyze_returned
    \/ run_analysis_finally

GuiSpec == GuiInit /\ [][GuiNext]_vars

CacheEmpty ==
    /\ cache = EmptyDict
    /\ access_times = EmptyDict
    /\ order = <<>>
    /\ clock = 0
    /\ written = EmptyDict
    /\ last_op = [op |-> "init"]

\* after construction: OllamaClient.__init__ sets is_connected from the probe
Init ==
    /\ fs \in [Paths -> {PyNone} \cup {f \in FileStates : f.size = 1 /\ f.mtime = 1}]
    /\ is_connected \in {check_connection(tags) : tags \in TagsOutcomes}
    /\ pc = "Idle"
    /\ entry = "none"
    /\ req = PyNone
    /\ context = PyNone
    /\ attempt = 0
    /\ last_error = PyNone
    /\ raw_response = PyNone
    /\ result = PyNone
    /\ raised = PyNone
    /\ caught = PyNone
    /\ probe = TRUE
    /\ generate_calls = 0
    /\ last_attempt = PyNone
    /\ reading = PyNone
    /\ context_builds = 0
    /\ first = PyNone
    /\ stub = PyNone
    /\ CacheEmpty
    /\ gui = MainWindowInit(TRUE)

Next ==
    \/ analyze
    \/ analyze_again
    \/ call_prepare_analysis_request
    \/ call_perform_ollama_analysis
    \/ call_perform_ollama_analysis_again
    \/ call_process_response
    \/ call_process_response_again
    \/ call_check_connection
    \/ call_test_connection
    \/ call_stream_generate
    \/ Streaming
    \/ Validating
    \/ BuildingContext
    \/ Invoking
    \/ Parsing
    \/ Return

Spec == Init /\ [][Next]_vars

\* an analyze() call that has started goes on: its stages run one after the
\* other in the caller's thread, and every generate call returns or raises
\* (the POST has a timeout)
FairSpec ==
    Spec /\ WF_vars(entry = "analyze" /\ (Validating \/ BuildingContext \/ Invoking \/ Parsing))

\* process_response on the response texts of the model: the image is in
\* place and the gateway is connected
TextInit ==
    /\ fs = [p \in Paths |-> [size |-> 1, mtime |-> 1, image_ok |-> TRUE]]
    /\ is_connected = TRUE
    /\ pc = "Idle"
    /\ entry = "none"
    /\ req = PyNone
    /\ context = PyNone
    /\ attempt = 0
    /\ last_error = PyNone
    /\ raw_response = PyNone
    /\ result = PyNone
    /\ raised = PyNone
    /\ caught = PyNone
    /\ probe = TRUE
    /\ generate_calls = 0
    /\ last_attempt = PyNone
    /\ reading = PyNone
    /\ context_builds = 0
    /\ first = PyNone
    /\ stub = PyNone
    /\ CacheEmpty
    /\ gui = MainWindowInit(TRUE)

TextNext ==
    \/ call_process_response_on_text
    \/ Parsing
    \/ Return

TextSpec == TextInit /\ [][TextNext]_vars

(***************************************************************************)
(* analysis/analyzer.py: AnalysisCache                                     *)
(***************************************************************************)
\* hashlib.md5(s.encode()).hexdigest(): taken to be free of collisions, so
\* the digest stands for the text it was computed from
md5(text) == "md5(" \o text \o ")"

\* the characters json.dumps leaves as they are: ' ' to '~' but " and \
JsonPlain == CharSet(SubSeq(AllChars, 32, 126)) \ {"\"", "\\"}

\* json.dumps(s) of a str (ensure_ascii): every other character is escaped
json_str(s) ==
    LET escaped(c) ==
            CASE c \in JsonPlain -> c
              [] c = "\"" -> "\\\""
              [] c = "\\" -> "\\\\"
              [] c = "\n" -> "\\n"
              [] c = "\r" -> "\\r"
              [] c = "\t" -> "\\t"
              [] c = "\f" -> "\\f"
              [] c = SubSeq(AllChars, 8, 8) -> "\\b"
              [] OTHER -> "\\u" \o Hex(ord(c), 4)
    IN  "\"" \o Flat([i \in 1..Len(s) |-> escaped(SubSeq(s, i, i))]) \o "\""

RECURSIVE json_dumps(_)
\* json.dumps(value, sort_keys=True)
json_dumps(v) ==
    CASE v.py = "NoneType" -> "null"
      [] v.py = "str" -> json_str(v.val)
      [] v.py = "text" -> json_str(Flat(v.val))
      [] v.py = "int" -> ToString(v.val)
      [] v.py = "bool" -> IF v.val THEN "true" ELSE "false"
      [] v.py = "list" ->
            "[" \o JoinStr([i \in 1..Len(v.items) |-> json_dumps(v.items[i])], ", ") \o "]"
      [] v.py = "dict" ->
            Let(SortedKeys(DOMAIN v.d), LAMBDA keys :
                "{" \o JoinStr([i \in 1..Len(keys) |->
                                  json_str(keys[i]) \o ": " \o json_dumps(v.d[keys[i]])],
                               ", ") \o "}")

\* get / put: datasheet_hash = None, or the digest of the serialized record
\* when datasheet_data is true
datasheet_hash_of(datasheet_data) ==
    IF Truthy(datasheet_data) THEN PyStr(md5(json_dumps(datasheet_data))) ELSE PyNone

\* _generate_key: f"{stat.st_size}_{stat.st_mtime}", or "unknown" when os.stat fails
file_info(schematic_path) ==
    IF exists(schematic_path)
    THEN ToString(fs[schematic_path].size) \o "_"
            \o ToString(fs[schematic_path].mtime) \o ".0"
    ELSE "unknown"

\* _generate_key with the analysis type left out of the key parts
_generate_key_without_type(schematic_path, analysis_type, datasheet_hash) ==
    LET key_parts == <<schematic_path, file_info(schematic_path)>>
                     \o (IF Truthy(datasheet_hash) THEN <<datasheet_hash.val>> ELSE <<>>)
    IN  md5(JoinStr(key_parts, "|"))

\* AnalysisCache._generate_key
_generate_key(schematic_path, analysis_type, datasheet_hash) ==
    LET key_parts == <<schematic_path, analysis_type, file_info(schematic_path)>>
                     \o (IF Truthy(datasheet_hash) THEN <<datasheet_hash.val>> ELSE <<>>)
    IN  md5(JoinStr(key_parts, "|"))

\* the key get and put compute from their arguments
key_of(schematic_path, analysis_type, datasheet_data) ==
    _generate_key(schematic_path, analysis_type, datasheet_hash_of(datasheet_data))

\* what get returns: self.cache[key] if key in self.cache, else None
lookup(schematic_path, analysis_type, datasheet_data) ==
    LET key == key_of(schematic_path, analysis_type, datasheet_data) IN
    IF key \in DOMAIN cache THEN cache[key] ELSE PyNone

\* the key that was inserted first, whatever its access time
oldest_key_by_insertion == order[1]

\* min(self.access_times.keys(), key=lambda k: self.access_times[k]): the
\* first key, in the dict's order, whose access time is the least
oldest_key ==
    LET least == CHOOSE i \in 1..Len(order) :
                    /\ \A j \in 1..Len(order) :
                          access_times[order[i]] <= access_times[order[j]]
                    /\ \A j \in 1..(i - 1) :
                          access_times[order[j]] > access_times[order[i]]
    IN  order[least]

\* the capacity test with > in the place of >=
cache_full_when_over == Cardinality(DOMAIN cache) > max_size

\* put: if len(self.cache) >= self.max_size
cache_full == Cardinality(DOMAIN cache) >= max_size

\* dict with key k set to v / without key k
DictSet(d, k, v) == [x \in DOMAIN d \cup {k} |-> IF x = k THEN v ELSE d[x]]
DictDel(d, k) == [x \in DOMAIN d \ {k} |-> d[x]]
SeqDel(seq, k) == SelectSeq(seq, LAMBDA x : x # k)

\* the arguments the cache of the model is called with
CacheRequests ==
    {[path |-> "work/a.png", type |-> "Component Verification", ds |-> PyNone],
     [path |-> "work/a.png", type |-> "Component Verification", ds |-> DS_Empty],
     [path |-> "work/a.png", type |-> "Component Verification", ds |-> DS_Known],
     [path |-> "work/a.png", type |-> "Component Verification", ds |-> DS_Unknown],
     [path |-> "work/a.png", type |-> "Custom Query", ds |-> PyNone],
     [path |-> "b.png", type |-> "Component Verification", ds |-> PyNone]}

\* the results that are cached
CacheResults == {[summary |-> "No significant issues identified."],
                 [summary |-> "Found 1 issue(s)"]}


\* AnalysisCache.get(r.path, r.type, r.ds)
get(r) ==
    LET key == key_of(r.path, r.type, r.ds) IN
    /\ access_times' = IF key \in DOMAIN cache
                       THEN [access_times EXCEPT ![key] = clock]
                       ELSE access_times
    /\ last_op' = [op |-> "get", path |-> r.path, type |-> r.type, ds |-> r.ds,
                   ret |-> lookup(r.path, r.type, r.ds)]
    /\ UNCHANGED <<cache, order, clock, written, fs, analyzerVars, gui>>

\* AnalysisCache.put(r.path, r.type, res, r.ds)
put(r, res) ==
    LET key == key_of(r.path, r.type, r.ds)
        evict == cache_full
        cache1 == IF evict THEN DictDel(cache, oldest_key) ELSE cache
        times1 == IF evict THEN DictDel(access_times, oldest_key) ELSE access_times
        order1 == IF evict THEN SeqDel(order, oldest_key) ELSE order
        written1 == IF evict THEN DictDel(written, oldest_key) ELSE written
    IN
    /\ cache' = DictSet(cache1, key, res)
    /\ access_times' = DictSet(times1, key, clock)
    /\ order' = IF key \in DOMAIN times1 THEN order1 ELSE Append(order1, key)
    /\ written' = DictSet(written1, key,
                          [path |-> r.path, type |-> r.type, ds |-> r.ds,
                           file |-> fs[r.path]])
    /\ last_op' = [op |-> "put", path |-> r.path, type |-> r.type, ds |-> r.ds,
                   res |-> res,
                   evicted |-> IF evict THEN <<oldest_key>> ELSE <<>>]
    /\ UNCHANGED <<clock, fs, analyzerVars, gui>>

\* AnalysisCache.clear
clear ==
    /\ cache' = EmptyDict
    /\ access_times' = EmptyDict
    /\ order' = <<>>
    /\ written' = EmptyDict
    /\ last_op' = [op |-> "clear", held |-> Cardinality(DOMAIN cache)]
    /\ UNCHANGED <<clock, fs, analyzerVars, gui>>

\* the wall clock read by time.time() advances; it does not run backwards,
\* and two operations with no tick between them read the same time
tick ==
    /\ clock < MaxClock
    /\ clock' = clock + 1
    /\ UNCHANGED <<cache, access_times, order, written, last_op, fs, analyzerVars, gui>>

\* the environment writes the schematic file work/a.png: it is created, or
\* rewritten with a new size and modification time
write_file ==
    \E f \in FileStates :
        /\ f.image_ok
        /\ f.size = f.mtime
        /\ f.mtime = IF fs["work/a.png"] = PyNone THEN 1 ELSE fs["work/a.png"].mtime + 1
        /\ fs' = [fs EXCEPT !["work/a.png"] = f]
        /\ last_op' = [op |-> "write_file"]
        /\ UNCHANGED <<cache, access_times, order, clock, written, analyzerVars, gui>>

CacheInit ==
    /\ fs = [p \in Paths |-> PyNone]
    /\ is_connected = TRUE
    /\ pc = "Idle"
    /\ entry = "none"
    /\ req = PyNone
    /\ context = PyNone
    /\ attempt = 0
    /\ last_error = PyNone
    /\ raw_response = PyNone
    /\ result = PyNone
    /\ raised = PyNone
    /\ caught = PyNone
    /\ probe = TRUE
    /\ generate_calls = 0
    /\ last_attempt = PyNone
    /\ reading = PyNone
    /\ context_builds = 0
    /\ first = PyNone
    /\ stub = PyNone
    /\ CacheEmpty
    /\ gui = MainWindowInit(TRUE)

\* the cache under every request of the model and a schematic file that
\* changes, all within one reading of the clock
CacheNext ==
    \/ \E r \in CacheRequests : get(r)
    \/ \E r \in CacheRequests, res \in CacheResults : put(r, res)
    \/ clear
    \/ write_file

CacheSpec == CacheInit /\ [][CacheNext]_vars

\* the requests and the result of the cache over time
LruRequests == {r \in CacheRequests : r.ds \in {PyNone, DS_Known}}
LruResults == {[summary |-> "No significant issues identified."]}

\* the cache over time, the files unchanged
LruNext ==
    \/ \E r \in LruRequests : get(r)
    \/ \E r \in LruRequests, res \in LruResults : put(r, res)
    \/ clear
    \/ tick

LruSpec == CacheInit /\ [][LruNext]_vars

\* an application that holds an analyzer and a cache: between two calls of
\* the analyzer it stores results in the cache
MemoInit == TextInit

MemoNext ==
    \/ Next
    \/ \E r \in LruRequests, res \in LruResults : pc = "Idle" /\ put(r, res)

MemoSpec == MemoInit /\ [][MemoNext]_vars

(***************************************************************************)
(* Properties of the analyzer.                                             *)
(***************************************************************************)
\* the category enumeration: the keys of PROMPT_TEMPLATES
Recognized == PresetTypes \cup {"Custom Query"}

\* metadata.get('error') is true
IsErrorResult(r) ==
    /\ "metadata" \in DOMAIN r
    /\ "error" \in DOMAIN r.metadata
    /\ r.metadata.error = TRUE

\* the request of the current call passes every stage before the gateway:
\* the image exists, the category is one of the enumeration, the connection
\* check answers true, the context builds and the image package is ready
ValidRequest ==
    /\ exists(req.schematic_path)
    /\ req.analysis_type \in Recognized
    /\ probe
    /\ build_analysis_context(req.schematic_path, req.datasheet_data,
                              req.analysis_type, req.custom_query).ok
    /\ create_analysis_package(req.schematic_path).ready

\* the call under way is one of the analyzer
InAnalyzer == entry \in {"analyze", "perform_ollama_analysis"}

\* every attempt of the retry budget has been made and has failed
BudgetExhausted ==
    /\ generate_calls = max_retries
    /\ last_attempt # PyNone
    /\ last_attempt.verdict # "accepted"

\* C1: analyze() never lets an exception reach its caller; a call that failed
\* has returned the error result for the exception it caught: metadata.error
\* true, summary 'Analysis failed: <reason>', no findings, and exactly one
\* issue, of severity CRITICAL.
C1_TotalRecovery ==
    entry = "analyze" =>
        /\ raised = PyNone
        /\ (caught # PyNone) <=> (pc = "Errored")
        /\ pc = "Errored" =>
            /\ IsErrorResult(result)
            /\ result.summary = "Analysis failed: " \o caught.exc.msg
            /\ result.findings = <<>>
            /\ Len(result.issues) = 1
            /\ result.issues[1].severity = "CRITICAL"

\* C1 witness: analyze() on an existing image has caught the AttributeError
\* of validation and returned the error result
C1_Witness ==
    /\ entry = "analyze"
    /\ pc = "Errored"
    /\ exists(req.schematic_path)
    /\ caught.exc.type = "AttributeError"
    /\ IsErrorResult(result)

\* C2: analyze() on a valid request, with a gateway that does not exhaust the
\* retry budget, returns a result that is not the error result.
C2_ValidRequestSucceeds ==
    (/\ entry = "analyze"
     /\ pc \in {"Done", "Errored"}
     /\ ValidRequest
     /\ ~BudgetExhausted)
    => ~IsErrorResult(result)

\* C3: analyze() on a valid request for which the gateway never returned an
\* acceptable response returns the error result whose single CRITICAL issue
\* reports the exhausted retry attempts.
C3_ExhaustionReported ==
    (/\ entry = "analyze"
     /\ pc \in {"Done", "Errored"}
     /\ ValidRequest
     /\ (last_attempt = PyNone \/ last_attempt.verdict # "accepted"))
    => /\ IsErrorResult(result)
       /\ Len(result.issues) = 1
       /\ result.issues[1].severity = "CRITICAL"
       /\ caught.stage = "Invoking"
       /\ result.issues[1].description =
            "Analysis failed: Ollama analysis failed after 3 attempts: "
                \o last_attempt.verdict

\* C4: at most max_retries generate calls are made in one invocation stage;
\* each failed call consumes one attempt and leaves its error in last_error;
\* an accepted response ends the loop; after max_retries failures the stage
\* has raised the terminal failure that carries the last attempt's error.
C4_RetryBudget ==
    /\ generate_calls <= 3
    /\ pc = "Invoking" => attempt = generate_calls /\ attempt < 3
    /\ (InAnalyzer /\ last_attempt # PyNone) =>
        IF last_attempt.verdict = "accepted"
        THEN /\ pc \in {"Parsing", "Done"}
             /\ generate_calls = attempt + 1
        ELSE /\ attempt = generate_calls
             /\ last_error = Exc(last_error.type, last_attempt.verdict)
             /\ (generate_calls = 3) <=> (pc = "Errored")
             /\ (pc = "Errored" /\ entry = "perform_ollama_analysis") =>
                    raised = Exc("Exception",
                                 "Ollama analysis failed after 3 attempts: "
                                    \o last_attempt.verdict)

\* C4 witness: three generate calls failed, the last one by a timeout, and
\* perform_ollama_analysis raised the terminal failure
C4_Witness ==
    /\ entry = "perform_ollama_analysis"
    /\ pc = "Errored"
    /\ generate_calls = 3
    /\ last_attempt.outcome.kind = "timeout"
    /\ raised.msg = "Ollama analysis failed after 3 attempts: "
                    \o "Ollama request timed out. Try a shorter prompt or increase timeout."

\* the latest generate call of the retry loop returned a JSON body
Answered ==
    /\ InAnalyzer
    /\ last_attempt # PyNone
    /\ last_attempt.outcome.kind = "json"

\* the response text that parse_response takes from that body
AnsweredText == parse_response(last_attempt.outcome.body)

\* the response text is a str
TextAnswered == Answered /\ type_name(AnsweredText) = "str"

\* C5: a response text of 11 or more characters after trimming is accepted
\* and returned untrimmed; one of 10 or fewer, an empty one or a missing one
\* is rejected, consumes the attempt, and the loop goes on while attempts
\* remain.  The response text is what parse_response takes from the body of
\* the answer; the statement is about a text that is a str or is empty.
C5_AcceptanceBoundary ==
    (Answered /\ (TextAnswered \/ ~Truthy(AnsweredText))) =>
        IF TextAnswered /\ Len(strip(text_chars(AnsweredText))) >= 11
        THEN /\ last_attempt.verdict = "accepted"
             /\ raw_response = AnsweredText
        ELSE /\ last_attempt.verdict = "Empty or too short response from Ollama"
             /\ attempt = generate_calls
             /\ raw_response = PyNone
             /\ pc = "Invoking" \/ generate_calls = 3

\* C5 witness: after a failed attempt, a padded response of exactly 11
\* characters once trimmed has been accepted
C5_Witness ==
    /\ TextAnswered
    /\ Len(strip(text_chars(AnsweredText))) = 11
    /\ Len(text_chars(AnsweredText)) > 11
    /\ generate_calls >= 2
    /\ last_attempt.verdict = "accepted"
    /\ pc = "Done"

\* C6: analyze() on a missing image or an unrecognized category ends in the
\* error result at validation: no generate call is made, no context is built.
C6_ValidationFailsFast ==
    (/\ entry = "analyze"
     /\ ~exists(req.schematic_path) \/ req.analysis_type \notin Recognized)
    => /\ generate_calls = 0
       /\ context_builds = 0
       /\ pc \in {"Validating", "Errored"}
       /\ pc = "Errored" => IsErrorResult(result) /\ caught.stage = "Validating"

\* C6 witness: analyze() on a missing image returned the error result
C6_Witness ==
    /\ entry = "analyze"
    /\ pc = "Errored"
    /\ ~exists(req.schematic_path)
    /\ req.analysis_type \in Recognized
    /\ probe
    /\ IsErrorResult(result)
    /\ generate_calls = 0

\* C7: when the image package is not ready, prepare_analysis_request raises
\* (the context having been built), analyze() ends in the error result, and
\* no generate call is made.
C7_NotReadyFailsBeforeGenerate ==
    (/\ entry \in {"analyze", "prepare_analysis_request"}
     /\ ~create_analysis_package(req.schematic_path).ready)
    => /\ generate_calls = 0
       /\ pc \notin {"Invoking", "Parsing", "Done"}
       /\ (pc = "Errored" /\ entry = "analyze") => IsErrorResult(result)
       /\ (/\ pc = "Errored"
           /\ entry = "prepare_analysis_request"
           /\ build_analysis_context(req.schematic_path, req.datasheet_data,
                                     req.analysis_type, req.custom_query).ok)
          => raised = Exc("Exception", "Failed to prepare image: "
                            \o create_analysis_package(req.schematic_path).error)

\* C7 witness: prepare_analysis_request on an existing file that is no
\* loadable image has raised
C7_Witness ==
    /\ entry = "prepare_analysis_request"
    /\ pc = "Errored"
    /\ exists(req.schematic_path)
    /\ ~fs[req.schematic_path].image_ok
    /\ raised.msg = "Failed to prepare image: Failed to load image: "
                    \o "cannot identify image file " \o repr_str(req.schematic_path)

\* C11: a call repeated on the same analyzer with the arguments of the
\* first has the outcome of the first, whatever the first call left behind:
\* a second analyze() returns the findings, issues and recommendations of
\* the first; and so do the stages of analyze() called directly, a second
\* perform_ollama_analysis with a gateway stub that answers every request
\* alike returning or raising what the first did, also when the first call
\* lost the connection, and a second process_response of the same text
\* returning the same three lists.
C11_Idempotence ==
    (first # PyNone /\ pc \in {"Done", "Errored"}) =>
        /\ entry = "analyze" =>
              /\ result.findings = first.result.findings
              /\ result.issues = first.result.issues
              /\ result.recommendations = first.result.recommendations
        /\ entry = "perform_ollama_analysis" =>
              /\ result = first.result
              /\ raised = first.raised
        /\ entry = "process_response" =>
              /\ raised = first.raised
              /\ result # PyNone =>
                    /\ result.findings = first.result.findings
                    /\ result.issues = first.result.issues
                    /\ result.recommendations = first.result.recommendations

\* C11 witness: the gateway stub refuses every connection.  The first
\* perform_ollama_analysis sent one request and lost the connection; the
\* second, on the client the first left disconnected, sent none, and has
\* raised what the first raised
C11_Witness ==
    /\ entry = "perform_ollama_analysis"
    /\ first # PyNone
    /\ pc = "Errored"
    /\ stub.kind = "connection_error"
    /\ first.last_attempt.sent = 1
    /\ last_attempt.sent = 0
    /\ ~is_connected
    /\ raised = first.raised
    /\ raised.msg = "Ollama analysis failed after 3 attempts: "
                    \o "Not connected to Ollama. Please check if Ollama is running."

(***************************************************************************)
(* Properties of the text heuristics.                                      *)
(***************************************************************************)
\* process_response has returned
Parsed == pc = "Done" /\ entry = "process_response"

\* the response text process_response was called with
ResponseText == Flat(raw_response.val)

\* the severity of the first bucket, in the order CRITICAL, HIGH, MEDIUM,
\* LOW, that has a keyword contained in the sentence; "none" without one
FirstBucket(sentence) ==
    LET has(words) == \E w \in words : Contains(lower(sentence), w) IN
    IF has({"missing", "incorrect", "wrong", "error", "fault", "broken", "failed"})
    THEN "CRITICAL"
    ELSE IF has({"warning", "concern", "problem", "issue", "mismatch", "violation"})
    THEN "HIGH"
    ELSE IF has({"suboptimal", "improvement", "better", "alternative", "consider"})
    THEN "MEDIUM"
    ELSE IF has({"minor", "cosmetic", "style", "preference", "optional"})
    THEN "LOW"
    ELSE "none"

\* the sentences of the response that yield an issue: of 10 characters or
\* more once trimmed, with a keyword of some bucket
IssueSentences ==
    LET pieces == re_split(ResponseText)
        qualifies(piece) == /\ Len(strip_str(piece)) >= 10
                            /\ FirstBucket(strip_str(piece)) # "none"
        kept == SelectSeq(pieces, qualifies)
    IN  [k \in 1..Len(kept) |-> strip_str(kept[k])]

\* C12: every sentence of at least 10 characters yields at most one Issue
\* (the issues are, in order, the first 8 sentences that have a keyword), and
\* the severity of each is that of the first bucket, in the order CRITICAL,
\* HIGH, MEDIUM, LOW, with a keyword contained in the sentence.
C12_SeverityBucketPriority ==
    Parsed =>
        /\ Len(result.issues) = Len(Take(IssueSentences, 8))
        /\ \A n \in 1..Len(result.issues) :
              /\ result.issues[n].description = IssueSentences[n]
              /\ result.issues[n].severity = FirstBucket(IssueSentences[n])

\* C12 witness: 'This is a minor warning about a mismatch.' has yielded one
\* issue, of severity HIGH
C12_Witness ==
    /\ Parsed
    /\ ResponseText = "This is a minor warning about a mismatch."
    /\ Len(result.issues) = 1
    /\ result.issues[1].severity = "HIGH"

\* the context of the current request had it been made with no datasheet
ContextWithoutDatasheet ==
    build_analysis_context(req.schematic_path, PyNone, req.analysis_type,
                           req.custom_query).value

\* C13: for the same response, the confidence score computed with a
\* datasheet whose component name is known is strictly greater than the score
\* computed with no datasheet, after the clamp too.
C13_ConfidenceMonotone ==
    (Parsed /\ req.datasheet_data = DS_Known) =>
        /\ context.has_datasheet
        /\ ~ContextWithoutDatasheet.has_datasheet
        /\ confidence_score(ResponseText, context)
              > confidence_score(ResponseText, ContextWithoutDatasheet)

\* C13 witness: a long response with more than 3 references and a known
\* datasheet has the highest score, 1.0, and the label High
C13_Witness ==
    /\ Parsed
    /\ req.datasheet_data = DS_Known
    /\ Len(ResponseText) > LongResponse
    /\ confidence_score(ResponseText, context) = 100
    /\ confidence_score(ResponseText, ContextWithoutDatasheet) = 70
    /\ result.metadata.confidence = "High"

\* prepare_analysis_request, called directly, has returned the context
Prepared == pc = "Done" /\ entry = "prepare_analysis_request"

\* the datasheet record has a component name that is populated and is not
\* the 'Unknown' sentinel
UsableName(ds) ==
    /\ ds.py = "dict"
    /\ "component_name" \in DOMAIN ds.d
    /\ ds.d["component_name"].py = "str"
    /\ ds.d["component_name"].val \notin {"", "Unknown"}

\* C14: has_datasheet of the built context is true only when a datasheet
\* record is present and its component name is populated and is not
\* 'Unknown'; otherwise it is false and the prompt has no datasheet block.
C14_HasDatasheetNeedsName ==
    Prepared =>
        /\ result.has_datasheet => UsableName(req.datasheet_data)
        /\ result.prompt.with_datasheet => UsableName(req.datasheet_data)

\* the scenario text of the end-to-end extraction
ScenarioText ==
    "Issues: R1 is missing a pull-up resistor. Recommend adding a 10k resistor. "
        \o "Verified: C1 value matches datasheet."

\* the findings of the result that are of a kind
FindingsOfKind(kind) == SelectSeq(result.findings, LAMBDA f : f.type = kind)

\* C15: for the scenario text the result has exactly one finding of kind
\* 'issue', of severity CRITICAL, exactly one of kind 'verification', of
\* severity INFO, and exactly one recommendation, which contains 'adding a
\* 10k resistor'.
C15_ScenarioFindings ==
    (Parsed /\ ResponseText = ScenarioText) =>
        /\ Len(result.findings) = 2
        /\ Len(FindingsOfKind("issue")) = 1
        /\ FindingsOfKind("issue")[1].severity = "CRITICAL"
        /\ Len(FindingsOfKind("verification")) = 1
        /\ FindingsOfKind("verification")[1].severity = "INFO"
        /\ Len(result.recommendations) = 1
        /\ Contains(result.recommendations[1], "adding a 10k resistor")

\* C15 witness: the scenario text has been processed; the issue finding is
\* the text that follows 'Issues:' and the verification the text that
\* follows 'Verified:'
C15_Witness ==
    /\ Parsed
    /\ ResponseText = ScenarioText
    /\ result.findings[1].description =
          "R1 is missing a pull-up resistor. Recommend adding a 10k resistor. "
              \o "Verified: C1 value matches datasheet."
    /\ result.findings[2].description = "C1 value matches datasheet."

\* C16 as stated: for the scenario text issue extraction yields exactly one
\* Issue, whose component is 'R1' and whose category is 'connectivity'.
C16_ScenarioIssueConnectivity ==
    (Parsed /\ ResponseText = ScenarioText) =>
        /\ Len(result.issues) = 1
        /\ result.issues[1].component = "R1"
        /\ result.issues[1].category = "connectivity"

\* C16 amended: for the scenario text issue extraction yields exactly one
\* Issue, whose component is 'R1' and whose category is 'components' (the
\* sentence has no connectivity word and has 'resistor').
C16_ScenarioIssue ==
    (Parsed /\ ResponseText = ScenarioText) =>
        /\ Len(result.issues) = 1
        /\ result.issues[1].component = "R1"
        /\ result.issues[1].category = "components"

\* C16 witness: the one issue of the scenario text is its first sentence, of
\* severity CRITICAL
C16_Witness ==
    /\ Parsed
    /\ ResponseText = ScenarioText
    /\ Len(result.issues) = 1
    /\ result.issues[1].description = "Issues: R1 is missing a pull-up resistor"
    /\ result.issues[1].severity = "CRITICAL"

\* C17: the template lookup returns the template of a recognized category
\* and the Custom Query template for every other category, the empty string
\* included; the prompt of a preset request carries that template.
C17_TemplateLookupTotal ==
    /\ \A t \in AnalysisTypes :
          get_prompt_template(t) =
              IF t \in Recognized THEN PROMPT_TEMPLATES[t]
              ELSE PROMPT_TEMPLATES["Custom Query"]
    /\ (Prepared /\ req.analysis_type # "Custom Query") =>
          result.prompt.body =
              IF req.analysis_type \in Recognized
              THEN PROMPT_TEMPLATES[req.analysis_type].val
              ELSE PROMPT_TEMPLATES["Custom Query"].val

\* C17 witness: the context of a request with a category that is not
\* recognized has been built with the Custom Query template
C17_Witness ==
    /\ Prepared
    /\ req.analysis_type = "Thermal Review"
    /\ result.prompt.body = PROMPT_TEMPLATES["Custom Query"].val

\* the stages of analyze()
Stages == {"Validating", "BuildingContext", "Invoking", "Parsing"}

\* a step of an analyze() call that changes its stage: to the next stage when
\* the stage has succeeded, to Errored from any stage, or, the call having
\* returned, to the first stage of a new call
StageStep ==
    (entry = "analyze" /\ entry' = "analyze" /\ pc' # pc) =>
        \/ /\ pc = "Validating" /\ pc' = "BuildingContext"
           /\ validate_analysis_inputs(req.schematic_path, req.analysis_type, probe).ok
        \/ /\ pc = "BuildingContext" /\ pc' = "Invoking"
           /\ context_builds' = 1
           /\ prepare_analysis_request(req.schematic_path, req.datasheet_data,
                                       req.analysis_type, req.custom_query).ok
        \/ /\ pc = "Invoking" /\ pc' = "Parsing"
           /\ last_attempt'.verdict = "accepted"
        \/ pc = "Parsing" /\ pc' = "Done"
        \/ pc \in Stages /\ pc' = "Errored"
        \/ pc \in {"Done", "Errored"} /\ pc' = "Validating"

\* what has happened when an analyze() call is where it is
StageInv ==
    entry = "analyze" =>
        /\ pc \in Stages \cup {"Done", "Errored"}
        /\ generate_calls > 0 =>
              /\ pc \in {"Invoking", "Parsing", "Done", "Errored"}
              /\ validate_analysis_inputs(req.schematic_path, req.analysis_type, probe).ok
              /\ context # PyNone
        /\ pc \in {"Parsing", "Done"} =>
              /\ last_attempt # PyNone
              /\ last_attempt.verdict = "accepted"
        /\ pc = "Done" => ~IsErrorResult(result)
        /\ pc = "Errored" => IsErrorResult(result)
        /\ pc \in Stages => result = PyNone

\* C18: an analyze() call runs Validating, BuildingContext, Invoking, Parsing
\* in that order, each at most once and only after the stage before it
\* succeeded; generate is not called before validation and context building
\* succeeded, nor the response processed before one was accepted; the call
\* ends in Done with a success result or in Errored with the error result.
C18_StageOrder ==
    /\ [][StageStep]_vars
    /\ []StageInv
    /\ (entry = "analyze") ~> (entry = "analyze" /\ pc \in {"Done", "Errored"})

\* C18 witness: an analyze() call for an existing image with a category that
\* is not recognized and a connection check that fails has ended in Errored
\* at its first stage
C18_Witness ==
    /\ entry = "analyze"
    /\ pc = "Errored"
    /\ caught.stage = "Validating"
    /\ exists(req.schematic_path)
    /\ req.analysis_type = "Thermal Review"
    /\ ~probe
    /\ context = PyNone
    /\ generate_calls = 0

\* C19: the message of the error result of a failed validation is that of
\* the first failing check: file not found, then invalid category, then not
\* connected.
C19_ValidationReasons ==
    (entry = "analyze" /\ pc = "Errored" /\ caught.stage = "Validating") =>
        caught.exc.msg =
            IF ~exists(req.schematic_path)
            THEN "Schematic file not found: " \o req.schematic_path
            ELSE IF req.analysis_type \notin Recognized
            THEN "Invalid analysis type: " \o req.analysis_type
            ELSE "Ollama client is not connected"

\* the label of a score in hundredths, bounded to [0, 100]
LabelOf(score) ==
    LET bounded == IF score < 0 THEN 0 ELSE IF score > 100 THEN 100 ELSE score IN
    IF bounded >= 80 THEN "High" ELSE IF bounded >= 60 THEN "Medium" ELSE "Low"

\* the letters that start a component reference in estimate_confidence
ReferenceLetters == {"r", "c", "l", "u", "q", "d", "g"}

\* the component and pin references of the response, each counted once
\* however often it is written
DistinctReferences(text) ==
    {lower(ReferenceAt(text, i, ReferenceLetters)) :
        i \in ReferenceStarts(text, ReferenceLetters)}

\* the generic phrases the response contains, whatever the case
GenericPhrasesIn(text) ==
    {p \in {"general", "typical", "usually", "might", "possibly"} :
        Contains(lower(text), p)}

\* C20 as stated: the label is that of 0.5, plus 0.3 with a datasheet, plus
\* 0.1 for a response of more than 500 characters, plus 0.1 for more than 3
\* distinct references, and depends on nothing else.
C20_ThreeConditionsOnly ==
    Parsed =>
        result.metadata.confidence =
            LabelOf(50 + (IF context.has_datasheet THEN 30 ELSE 0)
                       + (IF Len(ResponseText) > 500 THEN 10 ELSE 0)
                       + (IF Cardinality(DistinctReferences(ResponseText)) > 3
                          THEN 10 ELSE 0))

\* C20: the label is that of the score 0.5, plus 0.3 when the context has a
\* datasheet, plus 0.1 for a response of more than 500 characters, plus 0.1
\* for more than 3 occurrences of a component or pin reference (repeated
\* ones counted each time), minus 0.05 for each of the generic phrases
\* general, typical, usually, might, possibly that the response contains,
\* bounded to [0, 1]; High from 0.8, Medium from 0.6, else Low.
C20_ConfidenceFormula ==
    Parsed =>
        result.metadata.confidence =
            LabelOf(50 + (IF context.has_datasheet THEN 30 ELSE 0)
                       + (IF Len(ResponseText) > 500 THEN 10 ELSE 0)
                       + (IF Cardinality(ReferenceStarts(ResponseText, ReferenceLetters)) > 3
                          THEN 10 ELSE 0)
                       - 5 * Cardinality(GenericPhrasesIn(ResponseText)))

\* C20 witness: a short response without references that contains one
\* generic phrase, with a datasheet: 0.5 + 0.3 - 0.05 is below 0.8, Medium
C20_Witness ==
    /\ Parsed
    /\ context.has_datasheet
    /\ Len(ResponseText) <= 500
    /\ DistinctReferences(ResponseText) = {}
    /\ GenericPhrasesIn(ResponseText) = {"usually"}
    /\ result.metadata.confidence = "Medium"

\* the texts the issue-family patterns and the verification-family patterns
\* find in the response, each family in its extraction order
IssueFamilyTexts ==
    PatternGroups(ResponseText, <<"issue", "problem", "concern", "warning", "error">>, TRUE)
VerificationFamilyTexts ==
    PatternGroups(ResponseText, <<"verified", "correct", "good">>, TRUE)

\* the smaller of two numbers
Least(a, b) == IF a < b THEN a ELSE b

\* C21: findings has at most 10 entries, recommendations at most 8 and
\* issues at most 8; the findings are the first 10 of the issue-family texts
\* followed by the verification-family texts, so the verification findings
\* are the first to be cut off, and the issues are the first 8 sentences that
\* yield one.
C21_ListCaps ==
    Parsed =>
        LET findings == result.findings
            issue_count == Least(10, Len(IssueFamilyTexts))
        IN  /\ Len(findings) <= 10
            /\ Len(result.recommendations) <= 8
            /\ Len(result.issues) <= 8
            /\ Len(findings) =
                  Least(10, Len(IssueFamilyTexts) + Len(VerificationFamilyTexts))
            /\ \A k \in 1..Len(findings) :
                  IF k <= issue_count
                  THEN /\ findings[k].type = "issue"
                       /\ findings[k].description = IssueFamilyTexts[k]
                  ELSE /\ findings[k].type = "verification"
                       /\ findings[k].description = VerificationFamilyTexts[k - issue_count]
            /\ Len(result.issues) = Least(8, Len(IssueSentences))
            /\ \A k \in 1..Len(result.issues) :
                  result.issues[k].description = IssueSentences[k]

\* C21 witness: a response with 9 issue lines and 2 verification lines has
\* yielded 10 findings, the second verification finding being cut off, and 8
\* recommendations and 8 issues of the 9 there are
C21_Witness ==
    /\ Parsed
    /\ Len(IssueFamilyTexts) = 9
    /\ Len(VerificationFamilyTexts) = 2
    /\ Len(IssueSentences) = 9
    /\ Len(result.findings) = 10
    /\ result.findings[10].type = "verification"
    /\ result.findings[10].description = VerificationFamilyTexts[1]
    /\ Len(result.recommendations) = 8
    /\ Len(result.issues) = 8

\* the texts the recommendation patterns find in the response, in extraction
\* order: recommend, suggest, should, consider, and of more than 10 characters
RecommendationTexts ==
    PatternGroups(ResponseText, <<"recommend", "suggest">>, TRUE)
        \o PatternGroups(ResponseText, <<"should", "consider">>, FALSE)

\* C22: no two recommendations are equal when compared ignoring case, every
\* one is longer than 10 characters and trimmed, each is the first extracted
\* of its case variants, they are in extraction order, and the duplicates are
\* removed before the cap of 8 is applied.
C22_RecommendationsUnique ==
    Parsed =>
        LET recs == result.recommendations
            all == RecommendationTexts
            firsts == {i \in 1..Len(all) :
                          \A j \in 1..(i - 1) : lower(all[j]) # lower(all[i])}
        IN  /\ \A i, j \in 1..Len(recs) : i # j => lower(recs[i]) # lower(recs[j])
            /\ \A i \in 1..Len(recs) : Len(recs[i]) > 10 /\ strip_str(recs[i]) = recs[i]
            /\ Len(recs) = Least(8, Cardinality(firsts))
            /\ \A k \in 1..Len(recs) :
                  \E i \in firsts : /\ recs[k] = all[i]
                                    /\ Cardinality({j \in firsts : j < i}) = k - 1

\* C22 witness: of 9 extracted recommendations the first, 'ADDING PART 3',
\* has a case variant further on; the variant is dropped and the 8 others
\* are all kept
C22_Witness ==
    /\ Parsed
    /\ Len(RecommendationTexts) = 9
    /\ Len(result.recommendations) = 8
    /\ result.recommendations[1] = "ADDING PART 3"
    /\ result.recommendations[8] = "adding part 8"
    /\ \A k \in 1..8 : result.recommendations[k] # "adding part 3"

\* C26: the severity of every issue-family finding is that of the first
\* bucket of the keyword table of the issues, in the order CRITICAL, HIGH,
\* MEDIUM, LOW, that has a keyword in the finding's text.
C26_SeverityTablesAgree ==
    Parsed =>
        \A k \in 1..Len(result.findings) :
            (/\ result.findings[k].type = "issue"
             /\ FirstBucket(result.findings[k].description) # "none")
            => result.findings[k].severity = FirstBucket(result.findings[k].description)

\* prepare_analysis_request, called directly, has returned or raised
PrepareEnded == entry = "prepare_analysis_request" /\ pc \in {"Done", "Errored"}

\* C23: when the datasheet value is not a record (None, a string, a list),
\* context building does what it does for the empty record: it raises
\* nothing on account of the value, has_datasheet is false, the context has no
\* datasheet section and the prompt has no datasheet block.
C23_DatasheetCoercion ==
    (PrepareEnded /\ req.datasheet_data.py # "dict") =>
        LET built == build_analysis_context(req.schematic_path, DS_Empty,
                                            req.analysis_type, req.custom_query)
            package == create_analysis_package(req.schematic_path)
        IN  /\ built.ok
            /\ pc = "Done" =>
                  /\ raised = PyNone
                  /\ result = [built.value EXCEPT !.image_data = package]
                  /\ ~result.has_datasheet
                  /\ result.datasheet = PyNone
                  /\ ~result.prompt.with_datasheet
            /\ pc = "Errored" =>
                  /\ ~package.ready
                  /\ raised = Exc("Exception", "Failed to prepare image: " \o package.error)

\* C23 witness: prepare_analysis_request has returned a context for a
\* datasheet value that is a string, and another for one that is a list
C23_Witness ==
    /\ Prepared
    /\ req.datasheet_data \in {DS_Text, DS_List}
    /\ raised = PyNone
    /\ ~result.has_datasheet
    /\ result.datasheet = PyNone
    /\ ~result.prompt.with_datasheet

\* a step that is a call of OllamaClient.generate
GenerateCall == generate_calls' = generate_calls + 1

\* C27: no step sets is_connected back to true; a generate call made while
\* it is false raises ConnectionError without sending a request, so that the
\* method that made it does not return normally, but for test_connection,
\* which returns False, and for a stream_generate whose callback made the
\* call and caught what it raised; and a generate call whose response is
\* accepted was made with the flag true, so no attempt that follows a
\* connection-error attempt succeeds, whatever check_connection answers.
C27_StickyDisconnect ==
    [][/\ is_connected' => is_connected
       /\ (GenerateCall /\ ~is_connected) =>
             /\ last_attempt'.outcome.kind = "not_sent"
             /\ last_attempt'.verdict =
                   "Not connected to Ollama. Please check if Ollama is running."
             /\ pc' # "Parsing"
             /\ pc' = "Done" => \/ entry' = "test_connection" /\ result' = PyBool(FALSE)
                                \/ pc = "Streaming" /\ reading.callback = "generate_quiet"
       /\ (GenerateCall /\ last_attempt # PyNone
           /\ last_attempt.outcome.kind = "connection_error") =>
             /\ ~is_connected
             /\ last_attempt'.verdict # "accepted"
       /\ (GenerateCall /\ last_attempt'.verdict = "accepted") => is_connected]_vars

\* C27 witness: in perform_ollama_analysis, with a connection check that
\* answers true, the first generate call has lost the connection; the flag
\* is false and two attempts are still to be made
C27_Witness ==
    /\ entry = "perform_ollama_analysis"
    /\ pc = "Invoking"
    /\ probe
    /\ generate_calls = 1
    /\ attempt = 1
    /\ last_attempt.outcome.kind = "connection_error"
    /\ ~is_connected

\* a call has left the Invoking stage: the response was accepted, or the
\* attempts are exhausted
LeftInvoking ==
    \/ entry = "analyze" /\ pc \in {"Parsing", "Done"}
    \/ entry = "analyze" /\ pc = "Errored" /\ caught.stage = "Invoking"
    \/ entry = "perform_ollama_analysis" /\ pc \in {"Done", "Errored"}

\* C28: no step of an analyze() call, from its start to its return, changes
\* the cache or its access times; and every call that has left the Invoking
\* stage has called generate at least once itself, a second call with the
\* arguments of the first included.
C28_NoMemoization ==
    /\ [][(entry = "analyze" \/ entry' = "analyze") => UNCHANGED cacheVars]_vars
    /\ [](LeftInvoking => generate_calls >= 1)
    /\ []((entry = "analyze" /\ first # PyNone /\ pc \in {"Done", "Errored"}) =>
             /\ last_attempt = PyNone <=> generate_calls = 0
             /\ first.last_attempt = PyNone <=> last_attempt = PyNone)

\* C28 witness: analyze() has been called for a schematic, an analysis type
\* and a datasheet under which the cache holds a result, then called again,
\* and has returned; the cache holds what it held
C28_Witness ==
    /\ entry = "analyze"
    /\ first # PyNone
    /\ pc = "Errored"
    /\ key_of(req.schematic_path, req.analysis_type, req.datasheet_data) \in DOMAIN cache
    /\ Cardinality(DOMAIN cache) = max_size
    /\ result # cache[key_of(req.schematic_path, req.analysis_type, req.datasheet_data)]

(***************************************************************************)
(* Properties of the main window.                                          *)
(***************************************************************************)
\* C24: while an analyze() call made by run_analysis is in progress, the
\* main window is able to handle a user event or a due callback.
C24_UiResponsive == gui.in_progress > 0 => ENABLED UiEvent

\* C25: at most MAX_CONCURRENT_ANALYSES analyze() calls are in progress, and
\* the one in progress is the call the analyzer is in; run_analysis starts
\* a call only when none is in progress.
C25_SingleAnalysis ==
    /\ gui.in_progress <= MAX_CONCURRENT_ANALYSES
    /\ gui.in_progress = 1 => (entry = "analyze" /\ pc # "Idle" /\ gui.ui = "run_analysis")
    /\ gui.in_progress = 0 => gui.ui # "run_analysis"

\* C25 witness: an analyze() call is in progress while the run_analysis of
\* a second request is pending
C25_Witness ==
    /\ gui.in_progress = 1
    /\ pc = "Validating"
    /\ Len(gui.run_timers) = 1
    /\ gui.restore_timers >= 1

\* C30: the analyze() call of run_analysis is made with a schematic, the one
\* that was loaded when the analysis was requested, and a result is
\* displayed only if an analysis was requested since the last Clear All.
C30_AnalysisOnLoadedSchematic ==
    /\ gui.in_progress > 0 =>
          /\ gui.call.schematic_path # PyNone
          /\ gui.call.schematic_path = gui.call.requested_for
    /\ gui.current_results # PyNone => gui.requested

(***************************************************************************)
(* Properties of the cache.                                                *)
(***************************************************************************)
\* neither record is hashed into the key: None and the empty record {}
Unhashed(ds) == ds \in {PyNone, DS_Empty}

\* the entry a get(r) would return was written by a put with the image
\* identity and category of r
WrittenFor(r) ==
    LET w == written[key_of(r.path, r.type, r.ds)] IN
    /\ w.path = r.path
    /\ w.file = fs[r.path]
    /\ w.type = r.type

\* the result of the put that was just made is what a get with the same
\* arguments returns, and the cache has called no gateway
HitAfterPut ==
    /\ generate_calls = 0
    /\ last_op.op = "put" =>
          lookup(last_op.path, last_op.type, last_op.ds) = last_op.res
    /\ (last_op.op = "get" /\ last_op.ret # PyNone) =>
          last_op.ret = lookup(last_op.path, last_op.type, last_op.ds)

\* C8 as stated: put then get with the same image identity, category and
\* datasheet record returns the result; a get whose image identity, category
\* or datasheet record differs from those of the put misses.
C8_MissOnAnyDifference ==
    /\ HitAfterPut
    /\ \A r \in CacheRequests :
          lookup(r.path, r.type, r.ds) # PyNone =>
              /\ WrittenFor(r)
              /\ written[key_of(r.path, r.type, r.ds)].ds = r.ds

\* C8 amended: put then get with the same image identity, category and
\* datasheet record returns the result; a get misses when its image identity
\* or its category differs, or when its datasheet record differs and at least
\* one of the two records is non-empty (None and {} share one key).
C8_CacheCorrectness ==
    /\ HitAfterPut
    /\ \A r \in CacheRequests :
          lookup(r.path, r.type, r.ds) # PyNone =>
              /\ WrittenFor(r)
              /\ \/ written[key_of(r.path, r.type, r.ds)].ds = r.ds
                 \/ /\ Unhashed(written[key_of(r.path, r.type, r.ds)].ds)
                    /\ Unhashed(r.ds)

\* C8 witness: a get found the result put for the written image with a
\* datasheet, while the other category, the other datasheet and no datasheet
\* miss
C8_Witness ==
    /\ last_op.op = "get"
    /\ last_op.path = "work/a.png"
    /\ last_op.ds = DS_Known
    /\ last_op.ret \in CacheResults
    /\ exists("work/a.png")
    /\ lookup("work/a.png", "Component Verification", DS_Unknown) = PyNone
    /\ lookup("work/a.png", "Component Verification", PyNone) = PyNone
    /\ lookup("work/a.png", "Custom Query", PyNone) = PyNone

\* the key of the request recorded in last_op
op_key(op) == key_of(op.path, op.type, op.ds)

\* C9: a put of a new key into a cache holding max_size entries evicts
\* exactly one entry, one whose access time is the least (so not the entry
\* just read while an entry with an older access time exists) and leaves the
\* others as they were; a get hit sets the access time of its entry to the
\* current time and changes no other.
C9_LruEviction ==
    [][/\ (/\ last_op'.op = "put"
           /\ Cardinality(DOMAIN cache) = max_size
           /\ op_key(last_op') \notin DOMAIN cache)
          => \E victim \in DOMAIN cache :
                /\ last_op'.evicted = <<victim>>
                /\ DOMAIN cache' = (DOMAIN cache \ {victim}) \cup {op_key(last_op')}
                /\ \A k \in DOMAIN cache : access_times[victim] <= access_times[k]
                /\ \A k \in DOMAIN cache \ {victim} :
                      /\ cache'[k] = cache[k]
                      /\ access_times'[k] = access_times[k]
                /\ (/\ last_op.op = "get"
                    /\ last_op.ret # PyNone
                    /\ \E k \in DOMAIN cache :
                          access_times[k] < access_times[op_key(last_op)])
                   => victim # op_key(last_op)
       /\ (/\ last_op'.op = "get"
           /\ clock' = clock
           /\ last_op'.ret # PyNone)
          => /\ op_key(last_op') \in DOMAIN cache
             /\ access_times' = [access_times EXCEPT ![op_key(last_op')] = clock]
             /\ cache' = cache
      ]_vars

\* C9 witness: a put into the full cache evicted an entry other than the one
\* inserted first, which is still cached with the latest access time
C9_Witness ==
    /\ last_op.op = "put"
    /\ Len(last_op.evicted) = 1
    /\ Cardinality(DOMAIN cache) = max_size
    /\ order[1] = key_of("work/a.png", "Component Verification", PyNone)
    /\ order[Len(order)] = op_key(last_op)
    /\ last_op.path = "b.png"
    /\ access_times[order[1]] = clock
    /\ clock = MaxClock

\* C10: the cache holds at most max_size entries, the access-time table has
\* the keys of the result table, and after clear() both are empty and every
\* get misses.
C10_CacheSizeInvariant ==
    /\ Cardinality(DOMAIN cache) <= max_size
    /\ DOMAIN access_times = DOMAIN cache
    /\ last_op.op = "clear" =>
          /\ cache = EmptyDict
          /\ access_times = EmptyDict
          /\ \A r \in CacheRequests : lookup(r.path, r.type, r.ds) = PyNone

\* C10 witness: clear() has emptied a cache that held max_size entries
C10_Witness ==
    /\ last_op.op = "clear"
    /\ last_op.held = max_size
    /\ cache = EmptyDict
    /\ access_times = EmptyDict

\* C29: a put under a key that is already cached evicts nothing: every key
\* cached before the call is cached after it, and the number of entries is
\* unchanged, also when the cache holds max_size entries.
C29_OverwriteEvictsNothing ==
    [][(last_op'.op = "put" /\ op_key(last_op') \in DOMAIN cache)
          => /\ DOMAIN cache' = DOMAIN cache
             /\ last_op'.evicted = <<>>]_vars

====
